---- MODULE Spec2Model ----
(***************************************************************************)
(* CHIP-8 virtual machine of daniilsjb/chip-8 (src/src/chip8.c, chip8.h)   *)
(* driven through the calls the emulator makes on it (src/src/emulator.c). *)
(*                                                                         *)
(* The machine is the record `chip`, one field per field of struct Chip8.  *)
(* Every C function of chip8.c is an operator from a machine (and its      *)
(* arguments) to the machine it leaves; the actions apply them.            *)
(* The emulator around it is the record `emu`: its flags, clock, buzzer    *)
(* and ROM buffer, and the position and locals of Emulator_Run.            *)
(*                                                                         *)
(* Representation of the two wide fields:                                  *)
(*   ram    the 4096-byte buffer, kept as the finite map of its non-zero   *)
(*          bytes (an address outside the map's domain holds 0);           *)
(*   video  each uint64_t row is the set of its lit columns: column c      *)
(*          stands for bit 63 - c of the row, so column 0 is the MSB.      *)
(***************************************************************************)
EXTENDS Integers, Sequences, FiniteSets, TLC

VARIABLES chip, emu, last, calls, faults, shr_wraps, roms, pad

vars == <<chip, emu, last, calls, faults, shr_wraps, roms, pad>>

----------------------------------------------------------------------------
(* Program constants                                                       *)

RAM_SIZE == 4096
NUM_REGISTERS == 16
NUM_STACK == 16
NUM_KEYS == 16
VIDEO_WIDTH == 64
VIDEO_HEIGHT == 32
PROGRAM_START == 512
NO_KEY_REG == 255
FONT_GLYPH_SIZE == 5

(* Bounds of the model                                                     *)

\* Steps that perform an out-of-range access are followed this many times.
MaxFaults == 1

----------------------------------------------------------------------------
(* Fixed-width arithmetic                                                  *)

U8(n) == n % 256
U16(n) == n % 65536

\* The positions (0 = least significant) of the bits set in an 8-bit value.
Bits(b) == {k \in 0..7 : (b \div (2 ^ k)) % 2 = 1}

\* The 8-bit value whose set bits are the positions in S.
FromBits(S) ==
    (IF 0 \in S THEN 1 ELSE 0) + (IF 1 \in S THEN 2 ELSE 0) +
    (IF 2 \in S THEN 4 ELSE 0) + (IF 3 \in S THEN 8 ELSE 0) +
    (IF 4 \in S THEN 16 ELSE 0) + (IF 5 \in S THEN 32 ELSE 0) +
    (IF 6 \in S THEN 64 ELSE 0) + (IF 7 \in S THEN 128 ELSE 0)

BitAnd(a, b) == FromBits(Bits(a) \cap Bits(b))
BitOr(a, b) == FromBits(Bits(a) \cup Bits(b))
BitXor(a, b) == FromBits((Bits(a) \cup Bits(b)) \ (Bits(a) \cap Bits(b)))

----------------------------------------------------------------------------
(* Memory                                                                  *)

\* ram[a] for an address inside the buffer.
RamAt(ram, a) == IF a \in DOMAIN ram THEN ram[a] ELSE 0

\* ram[a] as the program reads it: a read past the buffer yields whatever
\* lies there, the byte `junk`.
ReadRam(ram, a, junk) == IF a < RAM_SIZE THEN RamAt(ram, a) ELSE junk

\* ram after the stores in the map w (address |-> byte); a store past the
\* buffer does not land in it.
WriteRam(ram, w) ==
    LET inside == {a \in DOMAIN w : a < RAM_SIZE}
        val(a) == IF a \in inside THEN w[a] ELSE ram[a]
        dom == {a \in (DOMAIN ram) \cup inside : val(a) # 0}
    IN  [a \in dom |-> val(a)]

\* The font table of InitFont, glyph d at offset 5 * d.
Font ==
    << 240, 144, 144, 144, 240,   32,  96,  32,  32, 112,
       240,  16, 240, 128, 240,  240,  16, 240,  16, 240,
       144, 144, 240,  16,  16,  240, 128, 240,  16, 240,
       240, 128, 240, 144, 240,  240,  16,  32,  64,  64,
       240, 144, 240, 144, 240,  240, 144, 240,  16, 240,
       240, 144, 240, 144, 144,  224, 144, 224, 144, 224,
       240, 128, 128, 128, 240,  224, 144, 144, 144, 224,
       240, 128, 240, 128, 240,  240, 128, 240, 128, 128 >>

----------------------------------------------------------------------------
(* Lifecycle: Chip8_Init, Chip8_Restart, Chip8_ClearProgram, Chip8_Reset,  *)
(* Chip8_LoadProgram                                                       *)

ClearScreen(c) == [c EXCEPT !.video = [r \in 0..(VIDEO_HEIGHT - 1) |-> {}]]

\* memset(chip->stack, 0, NUM_STACK) clears NUM_STACK bytes of an array of
\* 2-byte slots: the slots below NUM_STACK \div 2.
StackCleared(stack) ==
    [k \in 0..(NUM_STACK - 1) |-> IF 2 * k < NUM_STACK THEN 0 ELSE stack[k]]

\* Mutant: the timers and the latch are left as they are.
Chip8_Restart_KeepsTimersAndLatch(c) ==
    [ClearScreen(c) EXCEPT
        !.V = [r \in 0..(NUM_REGISTERS - 1) |-> 0],
        !.stack = StackCleared(c.stack),
        !.pc = PROGRAM_START,
        !.sp = 0,
        !.I = 0]

\* Mutant: the restart clears the program as a full reset does.
Chip8_Restart_ClearsProgram(c) ==
    [ClearScreen(c) EXCEPT
        !.V = [r \in 0..(NUM_REGISTERS - 1) |-> 0],
        !.stack = StackCleared(c.stack),
        !.ram = [a \in {x \in DOMAIN c.ram : x < PROGRAM_START} |-> c.ram[a]],
        !.delay = 0,
        !.sound = 0,
        !.pc = PROGRAM_START,
        !.sp = 0,
        !.I = 0,
        !.key_reg = NO_KEY_REG]

Chip8_Restart(c) ==
    [ClearScreen(c) EXCEPT
        !.V = [r \in 0..(NUM_REGISTERS - 1) |-> 0],
        !.stack = StackCleared(c.stack),
        !.delay = 0,
        !.sound = 0,
        !.pc = PROGRAM_START,
        !.sp = 0,
        !.I = 0,
        !.key_reg = NO_KEY_REG]

\* Mutant: the image is copied one byte too far into ram.
Chip8_LoadProgram_OneByteLate(c, program) ==
    [c EXCEPT !.ram = WriteRam(c.ram,
        [a \in (PROGRAM_START + 1)..(PROGRAM_START + Len(program)) |->
            program[a - PROGRAM_START]])]

\* memcpy(chip->ram + PROGRAM_START, program, size)
Chip8_LoadProgram(c, program) ==
    [c EXCEPT !.ram = WriteRam(c.ram,
        [a \in PROGRAM_START..(PROGRAM_START + Len(program) - 1) |->
            program[a - PROGRAM_START + 1]])]

\* Mutant: the whole of ram is cleared, the reserved region included.
Chip8_ClearProgram_FromZero(c) == [c EXCEPT !.ram = <<>>]

\* memset(chip->ram + PROGRAM_START, 0, RAM_SIZE - PROGRAM_START)
Chip8_ClearProgram(c) ==
    [c EXCEPT !.ram = [a \in {x \in DOMAIN c.ram : x < PROGRAM_START} |-> c.ram[a]]]

\* Mutant: the program space is not cleared.
Chip8_Reset_KeepsProgram(c) == Chip8_Restart(c)

Chip8_Reset(c) == Chip8_ClearProgram(Chip8_Restart(c))

\* The machine after memset(chip, 0, sizeof(*chip)) and InitMemory.
ZeroChip ==
    [V |-> [r \in 0..(NUM_REGISTERS - 1) |-> 0],
     I |-> 0,
     delay |-> 0,
     sound |-> 0,
     pc |-> 0,
     sp |-> 0,
     stack |-> [k \in 0..(NUM_STACK - 1) |-> 0],
     ram |-> <<>>,
     video |-> [r \in 0..(VIDEO_HEIGHT - 1) |-> {}],
     keys |-> [k \in 0..(NUM_KEYS - 1) |-> FALSE],
     key_reg |-> 0]

\* memcpy(chip->ram, font, sizeof(font))
InitFont(c) ==
    [c EXCEPT !.ram = WriteRam(c.ram, [a \in 0..(Len(Font) - 1) |-> Font[a + 1]])]

\* Mutant: the machine is left as the memset and the font copy leave it.
Chip8_Init_NoReset == InitFont(ZeroChip)

Chip8_Init == Chip8_Reset(InitFont(ZeroChip))

----------------------------------------------------------------------------
(* Timers and keys: Chip8_UpdateTimers, Chip8_UpdateKey                    *)

\* Mutant: both timers are decremented whatever they hold.
Chip8_UpdateTimers_Wraps(c) ==
    [c EXCEPT !.delay = U8(c.delay + 255), !.sound = U8(c.sound + 255)]

Chip8_UpdateTimers(c) ==
    [c EXCEPT
        !.delay = IF c.delay > 0 THEN c.delay - 1 ELSE c.delay,
        !.sound = IF c.sound > 0 THEN c.sound - 1 ELSE c.sound]

\* Mutant: the register is written but the latch is left set.
Chip8_UpdateKey_KeepsLatch(c, digit, pressed) ==
    LET k == [c EXCEPT !.keys[digit] = pressed]
    IN  IF c.key_reg < NUM_REGISTERS /\ pressed
        THEN [k EXCEPT !.V[c.key_reg] = digit]
        ELSE k

\* Mutant: a release resolves the latch as a press does.
Chip8_UpdateKey_AnyUpdate(c, digit, pressed) ==
    LET k == [c EXCEPT !.keys[digit] = pressed]
    IN  IF c.key_reg < NUM_REGISTERS
        THEN [k EXCEPT !.V[c.key_reg] = digit, !.key_reg = NO_KEY_REG]
        ELSE k

\* Mutant: a press stores the digit in V[0] when nothing waits for it.
Chip8_UpdateKey_PressWritesV0(c, digit, pressed) ==
    LET k == [c EXCEPT !.keys[digit] = pressed]
    IN  IF c.key_reg < NUM_REGISTERS /\ pressed
        THEN [k EXCEPT !.V[c.key_reg] = digit, !.key_reg = NO_KEY_REG]
        ELSE IF pressed THEN [k EXCEPT !.V[0] = digit]
        ELSE k

\* Mutant: a resolved wait leaves the latch at NUM_REGISTERS.
Chip8_UpdateKey_ClearsTo16(c, digit, pressed) ==
    LET k == [c EXCEPT !.keys[digit] = pressed]
    IN  IF c.key_reg < NUM_REGISTERS /\ pressed
        THEN [k EXCEPT !.V[c.key_reg] = digit, !.key_reg = NUM_REGISTERS]
        ELSE k

Chip8_UpdateKey(c, digit, pressed) ==
    LET k == [c EXCEPT !.keys[digit] = pressed]
    IN  IF c.key_reg < NUM_REGISTERS /\ pressed
        THEN [k EXCEPT !.V[c.key_reg] = digit, !.key_reg = NO_KEY_REG]
        ELSE k

----------------------------------------------------------------------------
(* Instruction fields and decoding (Chip8_Step)                            *)

NNN(i) == i % 4096
NN(i) == i % 256
N(i) == i % 16
X(i) == (i % 4096) \div 256
Y(i) == (i % 256) \div 16

\* i & 0xF000, i & 0xF00F, i & 0xF0FF
AndF000(i) == (i \div 4096) * 4096
AndF00F(i) == (i \div 4096) * 4096 + (i % 16)
AndF0FF(i) == (i \div 4096) * 4096 + (i % 256)

\* The handler the if/else chain of Chip8_Step selects, in its order;
\* "none" when no pattern matches.
Decode(i) ==
    IF i = 224 THEN "cls"                              \* 0x00E0
    ELSE IF i = 238 THEN "ret"                         \* 0x00EE
    ELSE IF AndF000(i) = 4096 THEN "jmp"               \* 0x1000
    ELSE IF AndF000(i) = 8192 THEN "call"              \* 0x2000
    ELSE IF AndF000(i) = 12288 THEN "eq"               \* 0x3000
    ELSE IF AndF000(i) = 16384 THEN "neq"              \* 0x4000
    ELSE IF AndF00F(i) = 20480 THEN "eqv"              \* 0x5000
    ELSE IF AndF000(i) = 24576 THEN "ldn"              \* 0x6000
    ELSE IF AndF000(i) = 28672 THEN "addn"             \* 0x7000
    ELSE IF AndF00F(i) = 32768 THEN "mov"              \* 0x8000
    ELSE IF AndF00F(i) = 32769 THEN "or"               \* 0x8001
    ELSE IF AndF00F(i) = 32770 THEN "and"              \* 0x8002
    ELSE IF AndF00F(i) = 32771 THEN "xor"              \* 0x8003
    ELSE IF AndF00F(i) = 32772 THEN "addv"             \* 0x8004
    ELSE IF AndF00F(i) = 32773 THEN "subl"             \* 0x8005
    ELSE IF AndF00F(i) = 32774 THEN "rsh"              \* 0x8006
    ELSE IF AndF00F(i) = 32775 THEN "subr"             \* 0x8007
    ELSE IF AndF00F(i) = 32782 THEN "lsh"              \* 0x800E
    ELSE IF AndF00F(i) = 36864 THEN "neqv"             \* 0x9000
    ELSE IF AndF000(i) = 40960 THEN "ldi"              \* 0xA000
    ELSE IF AndF000(i) = 45056 THEN "jmpn"             \* 0xB000
    ELSE IF AndF000(i) = 49152 THEN "rnd"              \* 0xC000
    ELSE IF AndF000(i) = 53248 THEN "draw"             \* 0xD000
    ELSE IF AndF0FF(i) = 57502 THEN "key"              \* 0xE09E
    ELSE IF AndF0FF(i) = 57505 THEN "nkey"             \* 0xE0A1
    ELSE IF AndF0FF(i) = 61447 THEN "ldd"              \* 0xF007
    ELSE IF AndF0FF(i) = 61450 THEN "wait"             \* 0xF00A
    ELSE IF AndF0FF(i) = 61461 THEN "dly"              \* 0xF015
    ELSE IF AndF0FF(i) = 61464 THEN "snd"              \* 0xF018
    ELSE IF AndF0FF(i) = 61470 THEN "addi"             \* 0xF01E
    ELSE IF AndF0FF(i) = 61481 THEN "dgt"              \* 0xF029
    ELSE IF AndF0FF(i) = 61491 THEN "bcd"              \* 0xF033
    ELSE IF AndF0FF(i) = 61525 THEN "load"             \* 0xF055
    ELSE IF AndF0FF(i) = 61541 THEN "fill"             \* 0xF065
    ELSE "none"

\* One test of the chain: (i & mask) == value selects handler op; the test
\* i == value is the mask FFFF.
Pattern(mask, value, op) == [mask |-> mask, value |-> value, op |-> op]

\* i & mask
Masked(i, mask) ==
    CASE mask = "FFFF" -> i
      [] mask = "F000" -> AndF000(i)
      [] mask = "F00F" -> AndF00F(i)
      [] mask = "F0FF" -> AndF0FF(i)

\* Mutant: 8XY0 is tested with the mask F000.
Patterns_MovAnyLowNibble ==
    << Pattern("FFFF", 224, "cls"),
       Pattern("FFFF", 238, "ret"),
       Pattern("F000", 4096, "jmp"),
       Pattern("F000", 8192, "call"),
       Pattern("F000", 12288, "eq"),
       Pattern("F000", 16384, "neq"),
       Pattern("F00F", 20480, "eqv"),
       Pattern("F000", 24576, "ldn"),
       Pattern("F000", 28672, "addn"),
       Pattern("F000", 32768, "mov"),
       Pattern("F00F", 32769, "or"),
       Pattern("F00F", 32770, "and"),
       Pattern("F00F", 32771, "xor"),
       Pattern("F00F", 32772, "addv"),
       Pattern("F00F", 32773, "subl"),
       Pattern("F00F", 32774, "rsh"),
       Pattern("F00F", 32775, "subr"),
       Pattern("F00F", 32782, "lsh"),
       Pattern("F00F", 36864, "neqv"),
       Pattern("F000", 40960, "ldi"),
       Pattern("F000", 45056, "jmpn"),
       Pattern("F000", 49152, "rnd"),
       Pattern("F000", 53248, "draw"),
       Pattern("F0FF", 57502, "key"),
       Pattern("F0FF", 57505, "nkey"),
       Pattern("F0FF", 61447, "ldd"),
       Pattern("F0FF", 61450, "wait"),
       Pattern("F0FF", 61461, "dly"),
       Pattern("F0FF", 61464, "snd"),
       Pattern("F0FF", 61470, "addi"),
       Pattern("F0FF", 61481, "dgt"),
       Pattern("F0FF", 61491, "bcd"),
       Pattern("F0FF", 61525, "load"),
       Pattern("F0FF", 61541, "fill") >>

\* The mask/value pairs of the chain of Chip8_Step, in its order.
Patterns ==
    << Pattern("FFFF", 224, "cls"),
       Pattern("FFFF", 238, "ret"),
       Pattern("F000", 4096, "jmp"),
       Pattern("F000", 8192, "call"),
       Pattern("F000", 12288, "eq"),
       Pattern("F000", 16384, "neq"),
       Pattern("F00F", 20480, "eqv"),
       Pattern("F000", 24576, "ldn"),
       Pattern("F000", 28672, "addn"),
       Pattern("F00F", 32768, "mov"),
       Pattern("F00F", 32769, "or"),
       Pattern("F00F", 32770, "and"),
       Pattern("F00F", 32771, "xor"),
       Pattern("F00F", 32772, "addv"),
       Pattern("F00F", 32773, "subl"),
       Pattern("F00F", 32774, "rsh"),
       Pattern("F00F", 32775, "subr"),
       Pattern("F00F", 32782, "lsh"),
       Pattern("F00F", 36864, "neqv"),
       Pattern("F000", 40960, "ldi"),
       Pattern("F000", 45056, "jmpn"),
       Pattern("F000", 49152, "rnd"),
       Pattern("F000", 53248, "draw"),
       Pattern("F0FF", 57502, "key"),
       Pattern("F0FF", 57505, "nkey"),
       Pattern("F0FF", 61447, "ldd"),
       Pattern("F0FF", 61450, "wait"),
       Pattern("F0FF", 61461, "dly"),
       Pattern("F0FF", 61464, "snd"),
       Pattern("F0FF", 61470, "addi"),
       Pattern("F0FF", 61481, "dgt"),
       Pattern("F0FF", 61491, "bcd"),
       Pattern("F0FF", 61525, "load"),
       Pattern("F0FF", 61541, "fill") >>

\* The tests of the chain that instruction word i passes.
Matching(i) ==
    {k \in 1..Len(Patterns) : Masked(i, Patterns[k].mask) = Patterns[k].value}

\* Mutant: the byte at pc is taken as the low byte of the word.
Fetch_LowByteFirst(c, junk) ==
    ReadRam(c.ram, c.pc, junk) + ReadRam(c.ram, U16(c.pc + 1), junk) * 256

\* The instruction word Chip8_Step fetches at c.pc, big-endian; the second
\* byte is read at the incremented (16-bit) pc.
Fetch(c, junk) ==
    ReadRam(c.ram, c.pc, junk) * 256 + ReadRam(c.ram, U16(c.pc + 1), junk)

----------------------------------------------------------------------------
(* Opcode handlers. Each takes the machine c with pc already advanced, the *)
(* instruction word i, and env: the values the step draws from outside the *)
(* machine: rnd, the low byte of rand(); junk, the byte that a read past   *)
(* the end of ram, stack or keys finds there; wraps, how the build shifts  *)
(* a 64-bit row by 64 or more.                                             *)

cls(c, i) == ClearScreen(c)

\* chip->pc = chip->stack[--chip->sp]; sp is 8 bits wide.
ret(c, i, env) ==
    LET sp == U8(c.sp + 255)
    IN  [c EXCEPT !.sp = sp,
                  !.pc = IF sp < NUM_STACK THEN c.stack[sp]
                        ELSE env.junk * 256 + env.junk]

jmp(c, i) == [c EXCEPT !.pc = NNN(i)]

\* Mutant: the address of the call itself is pushed.
call_PushesOwnAddress(c, i) ==
    [c EXCEPT !.stack = IF c.sp < NUM_STACK
                        THEN [c.stack EXCEPT ![c.sp] = U16(c.pc + 65534)]
                        ELSE c.stack,
              !.sp = U8(c.sp + 1),
              !.pc = NNN(i)]

\* chip->stack[chip->sp++] = chip->pc; chip->pc = NNN(i). A store at a slot
\* past the array does not land in it.
call(c, i) ==
    [c EXCEPT !.stack = IF c.sp < NUM_STACK
                        THEN [c.stack EXCEPT ![c.sp] = c.pc]
                        ELSE c.stack,
              !.sp = U8(c.sp + 1),
              !.pc = NNN(i)]

\* Mutant: the next instruction is skipped when the condition fails.
Skip_WhenFalse(c, cond) == IF cond THEN c ELSE [c EXCEPT !.pc = U16(c.pc + 2)]

Skip(c, cond) == IF cond THEN [c EXCEPT !.pc = U16(c.pc + 2)] ELSE c

eq(c, i) == Skip(c, c.V[X(i)] = NN(i))
neq(c, i) == Skip(c, c.V[X(i)] # NN(i))
eqv(c, i) == Skip(c, c.V[X(i)] = c.V[Y(i)])
neqv(c, i) == Skip(c, c.V[X(i)] # c.V[Y(i)])

ldn(c, i) == [c EXCEPT !.V[X(i)] = NN(i)]

\* Mutant: 7XNN that sets VF to the carry.
addn_SetsCarry(c, i) ==
    [c EXCEPT !.V[15] = IF c.V[X(i)] + NN(i) > 255 THEN 1 ELSE 0,
              !.V[X(i)] = U8(c.V[X(i)] + NN(i))]

addn(c, i) == [c EXCEPT !.V[X(i)] = U8(c.V[X(i)] + NN(i))]
mov(c, i) == [c EXCEPT !.V[X(i)] = c.V[Y(i)]]
or(c, i) == [c EXCEPT !.V[X(i)] = BitOr(c.V[X(i)], c.V[Y(i)])]
and(c, i) == [c EXCEPT !.V[X(i)] = BitAnd(c.V[X(i)], c.V[Y(i)])]
xor(c, i) == [c EXCEPT !.V[X(i)] = BitXor(c.V[X(i)], c.V[Y(i)])]

\* Mutant: the carry test is off by one.
addv_CarryAt255(c, i) ==
    LET sum == c.V[X(i)] + c.V[Y(i)]
        f == [c EXCEPT !.V[15] = IF sum >= 255 THEN 1 ELSE 0]
    IN  [f EXCEPT !.V[X(i)] = U8(sum)]

\* sum is computed first, then V[0xF], then V[X].
addv(c, i) ==
    LET sum == c.V[X(i)] + c.V[Y(i)]
        f == [c EXCEPT !.V[15] = IF sum > 255 THEN 1 ELSE 0]
    IN  [f EXCEPT !.V[X(i)] = U8(sum)]

\* V[0xF] is stored first; the subtraction then reads V[X] and V[Y] again.
subl(c, i) ==
    LET f == [c EXCEPT !.V[15] = IF c.V[X(i)] >= c.V[Y(i)] THEN 1 ELSE 0]
    IN  [f EXCEPT !.V[X(i)] = U8(f.V[X(i)] - f.V[Y(i)] + 256)]

subr(c, i) ==
    LET f == [c EXCEPT !.V[15] = IF c.V[Y(i)] >= c.V[X(i)] THEN 1 ELSE 0]
    IN  [f EXCEPT !.V[X(i)] = U8(f.V[Y(i)] - f.V[X(i)] + 256)]

lsh(c, i) ==
    LET f == [c EXCEPT !.V[15] = IF 7 \in Bits(c.V[Y(i)]) THEN 1 ELSE 0]
    IN  [f EXCEPT !.V[X(i)] = U8(f.V[Y(i)] * 2)]

rsh(c, i) ==
    LET f == [c EXCEPT !.V[15] = c.V[Y(i)] % 2]
    IN  [f EXCEPT !.V[X(i)] = f.V[Y(i)] \div 2]

ldi(c, i) == [c EXCEPT !.I = NNN(i)]

\* chip->pc = NNN(i) + chip->V[0], stored in 16 bits.
jmpn(c, i) == [c EXCEPT !.pc = U16(NNN(i) + c.V[0])]

rnd(c, i, env) == [c EXCEPT !.V[X(i)] = BitAnd(env.rnd, NN(i))]

\* ((uint64_t)byte << (VIDEO_WIDTH - 8)) >> x as a set of columns. Bit k of
\* the byte starts at column 7 - k and moves x columns to the right; what
\* passes column 63 is shifted out. A count of 64 or more is undefined in C:
\* the build either reduces it modulo 64 (wraps) or yields 0.
SpriteMask(byte, x, wraps) ==
    LET s == IF x < VIDEO_WIDTH THEN x
             ELSE IF wraps THEN x % VIDEO_WIDTH ELSE VIDEO_WIDTH
    IN  {col \in {7 - k + s : k \in Bits(byte)} : col < VIDEO_WIDTH}

\* a & b and a ^ b on rows
RowAnd(a, b) == a \cap b
\* Mutant: the sprite is OR-ed into the row.
RowXor_Or(a, b) == a \cup b

RowXor(a, b) == (a \cup b) \ (a \cap b)

\* Mutant: each row overwrites the flag of the rows before it.
DrawRow_LastRowFlag(c, x, y, dy, env) ==
    LET vy == (y + dy) % VIDEO_HEIGHT
        mask == SpriteMask(ReadRam(c.ram, c.I + dy, env.junk), x, env.wraps)
        hit == IF RowAnd(c.video[vy], mask) # {} THEN 1 ELSE 0
    IN  [c EXCEPT !.V[15] = hit,
                  !.video[vy] = RowXor(c.video[vy], mask)]

\* One iteration of the loop of draw, for sprite row dy.
DrawRow(c, x, y, dy, env) ==
    LET vy == (y + dy) % VIDEO_HEIGHT
        mask == SpriteMask(ReadRam(c.ram, c.I + dy, env.junk), x, env.wraps)
        hit == IF RowAnd(c.video[vy], mask) # {} THEN 1 ELSE 0
    IN  [c EXCEPT !.V[15] = BitOr(c.V[15], hit),
                  !.video[vy] = RowXor(c.video[vy], mask)]

RECURSIVE DrawLoop(_, _, _, _, _, _)
DrawLoop(c, x, y, h, dy, env) ==
    IF dy < h
    THEN DrawLoop(DrawRow(c, x, y, dy, env), x, y, h, dy + 1, env)
    ELSE c

\* x, y and h are read before V[0xF] is cleared.
draw(c, i, env) ==
    DrawLoop([c EXCEPT !.V[15] = 0], c.V[X(i)], c.V[Y(i)], N(i), 0, env)

\* chip->keys[chip->V[X(i)]]; a read past the array yields what lies there.
KeyAt(c, k, env) == IF k < NUM_KEYS THEN c.keys[k] ELSE env.junk # 0

key(c, i, env) == Skip(c, KeyAt(c, c.V[X(i)], env))
nkey(c, i, env) == Skip(c, ~KeyAt(c, c.V[X(i)], env))

dly(c, i) == [c EXCEPT !.delay = c.V[X(i)]]
ldd(c, i) == [c EXCEPT !.V[X(i)] = c.delay]
wait(c, i) == [c EXCEPT !.key_reg = X(i)]
snd(c, i) == [c EXCEPT !.sound = c.V[X(i)]]
addi(c, i) == [c EXCEPT !.I = U16(c.I + c.V[X(i)])]
dgt(c, i) == [c EXCEPT !.I = c.V[X(i)] * FONT_GLYPH_SIZE]

\* Mutant: the digits are stored lowest first.
bcd_OnesFirst(c, i) ==
    LET number == c.V[X(i)]
    IN  [c EXCEPT !.ram = WriteRam(c.ram,
            (c.I :> number % 10) @@
            (c.I + 1 :> (number \div 10) % 10) @@
            (c.I + 2 :> ((number \div 10) \div 10) % 10))]

bcd(c, i) ==
    LET number == c.V[X(i)]
    IN  [c EXCEPT !.ram = WriteRam(c.ram,
            (c.I + 2 :> number % 10) @@
            (c.I + 1 :> (number \div 10) % 10) @@
            (c.I :> ((number \div 10) \div 10) % 10))]

\* Mutant: V[X] itself is not copied.
load_OneShort(c, i) ==
    [c EXCEPT !.ram = WriteRam(c.ram,
                        [a \in c.I..(c.I + X(i) - 1) |-> c.V[a - c.I]]),
              !.I = U16(c.I + X(i) + 1)]

\* memcpy(chip->ram + chip->I, chip->V, X(i) + 1); chip->I += X(i) + 1
load(c, i) ==
    [c EXCEPT !.ram = WriteRam(c.ram, [a \in c.I..(c.I + X(i)) |-> c.V[a - c.I]]),
              !.I = U16(c.I + X(i) + 1)]

\* memcpy(chip->V, chip->ram + chip->I, X(i) + 1); chip->I += X(i) + 1
fill(c, i, env) ==
    [c EXCEPT !.V = [r \in 0..(NUM_REGISTERS - 1) |->
                        IF r <= X(i) THEN ReadRam(c.ram, c.I + r, env.junk)
                        ELSE c.V[r]],
              !.I = U16(c.I + X(i) + 1)]

\* The handler op applied to machine c and instruction word i.
Execute(op, c, i, env) ==
    CASE op = "cls" -> cls(c, i)
      [] op = "ret" -> ret(c, i, env)
      [] op = "jmp" -> jmp(c, i)
      [] op = "call" -> call(c, i)
      [] op = "eq" -> eq(c, i)
      [] op = "neq" -> neq(c, i)
      [] op = "eqv" -> eqv(c, i)
      [] op = "ldn" -> ldn(c, i)
      [] op = "addn" -> addn(c, i)
      [] op = "mov" -> mov(c, i)
      [] op = "or" -> or(c, i)
      [] op = "and" -> and(c, i)
      [] op = "xor" -> xor(c, i)
      [] op = "addv" -> addv(c, i)
      [] op = "subl" -> subl(c, i)
      [] op = "rsh" -> rsh(c, i)
      [] op = "subr" -> subr(c, i)
      [] op = "lsh" -> lsh(c, i)
      [] op = "neqv" -> neqv(c, i)
      [] op = "ldi" -> ldi(c, i)
      [] op = "jmpn" -> jmpn(c, i)
      [] op = "rnd" -> rnd(c, i, env)
      [] op = "draw" -> draw(c, i, env)
      [] op = "key" -> key(c, i, env)
      [] op = "nkey" -> nkey(c, i, env)
      [] op = "ldd" -> ldd(c, i)
      [] op = "wait" -> wait(c, i)
      [] op = "dly" -> dly(c, i)
      [] op = "snd" -> snd(c, i)
      [] op = "addi" -> addi(c, i)
      [] op = "dgt" -> dgt(c, i)
      [] op = "bcd" -> bcd(c, i)
      [] op = "load" -> load(c, i)
      [] op = "fill" -> fill(c, i, env)
      [] OTHER -> c

\* Mutant: the step does not look at the latch.
Chip8_Step_NoLatch(c, env) ==
    LET i == Fetch(c, env.junk)
    IN  Execute(Decode(i), [c EXCEPT !.pc = U16(c.pc + 2)], i, env)

\* Mutant: a word no test of the chain accepts is not stepped over.
Chip8_Step_UnknownStays(c, env) ==
    IF c.key_reg < NUM_REGISTERS
    THEN c
    ELSE LET i == Fetch(c, env.junk)
         IN  IF Decode(i) = "none" THEN c
             ELSE Execute(Decode(i), [c EXCEPT !.pc = U16(c.pc + 2)], i, env)

\* Chip8_Step: nothing while waiting for a key; otherwise fetch, advance pc
\* by two (16 bits wide), decode, execute.
Chip8_Step(c, env) ==
    IF c.key_reg < NUM_REGISTERS
    THEN c
    ELSE LET i == Fetch(c, env.junk)
         IN  Execute(Decode(i), [c EXCEPT !.pc = U16(c.pc + 2)], i, env)

----------------------------------------------------------------------------
(* The indices a step uses, from the machine c it starts in                *)

\* Whether Chip8_Step fetches and executes an instruction from c.
Running(c) == c.key_reg >= NUM_REGISTERS

\* The ram indices Chip8_Step reads or writes.
RamIndices(c, env) ==
    IF ~Running(c) THEN {}
    ELSE LET i == Fetch(c, env.junk)
             op == Decode(i)
         IN  {c.pc, U16(c.pc + 1)} \cup
             (CASE op = "draw" -> {c.I + dy : dy \in 0..(N(i) - 1)}
                [] op = "bcd" -> {c.I, c.I + 1, c.I + 2}
                [] op \in {"load", "fill"} -> c.I..(c.I + X(i))
                [] OTHER -> {})

\* The stack slots Chip8_Step reads or writes.
StackIndices(c, env) ==
    IF ~Running(c) THEN {}
    ELSE LET op == Decode(Fetch(c, env.junk))
         IN  CASE op = "ret" -> {U8(c.sp + 255)}
               [] op = "call" -> {c.sp}
               [] OTHER -> {}

\* The key slots Chip8_Step reads.
KeyIndices(c, env) ==
    IF ~Running(c) THEN {}
    ELSE LET i == Fetch(c, env.junk)
         IN  IF Decode(i) \in {"key", "nkey"} THEN {c.V[X(i)]} ELSE {}

\* The shift counts Chip8_Step applies to a 64-bit row.
ShiftCounts(c, env) ==
    IF ~Running(c) THEN {}
    ELSE LET i == Fetch(c, env.junk)
         IN  IF Decode(i) = "draw" /\ N(i) > 0 THEN {c.V[X(i)]} ELSE {}

\* Whether the step from c leaves the bounds the C language defines.
StepFaults(c, env) ==
    \/ (\E a \in RamIndices(c, env) : a >= RAM_SIZE)
    \/ (\E s \in StackIndices(c, env) : s >= NUM_STACK)
    \/ (\E k \in KeyIndices(c, env) : k >= NUM_KEYS)
    \/ (\E n \in ShiftCounts(c, env) : n >= VIDEO_WIDTH)

----------------------------------------------------------------------------
(* Inputs: the values a step may draw, the keys the driver reports, and    *)
(* the program images offered to the loader                                *)

\* Low bytes of rand().
RandSample == {0, 1, 60, 255}

\* Bytes found past the end of an array.
JunkSample == {0, 255}

\* Register indices used by the generated programs.
RegSample == {0, 2, 15}

\* The instruction word with nibbles a b c d, and with address field nnn.
Op(a, b, c, d) == a * 4096 + b * 256 + c * 16 + d
OpA(a, nnn) == a * 4096 + nnn

\* The address of the n-th instruction word (from 0) of a loaded program.
AddrOf(n) == PROGRAM_START + 2 * n

\* A jump to itself as the n-th word: the program stays there.
Halt(n) == OpA(1, AddrOf(n))

\* The byte image of a sequence of instruction words, big-endian.
Image(ws) ==
    [k \in 1..(2 * Len(ws)) |->
        IF k % 2 = 1 THEN ws[(k + 1) \div 2] \div 256 ELSE ws[k \div 2] % 256]

\* FX0A, then 7X01, then stay.
KeyRoms ==
    {Image(<<Op(15, x, 0, 10), Op(7, x, 0, 1), Halt(2)>>) : x \in RegSample}

\* V[x] and V[y] drawn at random, then 8XYk, then stay.
AluRoms(k) ==
    {Image(<<Op(12, p[1], 15, 15), Op(12, p[2], 15, 15),
             Op(8, p[1], p[2], k), Halt(3)>>) : p \in RegSample \X RegSample}

\* Sprite of n rows at address a drawn at random coordinates, drawn again
\* after 2 is added to V[x], and drawn once more in place.
DrawRom(x, y, n, a) ==
    Image(<<OpA(10, a), Op(12, x, 15, 15), Op(12, y, 15, 15), Op(13, x, y, n),
            Op(7, x, 0, 2), Op(13, x, y, n), Op(13, x, y, n), Halt(7)>>)

\* Heights 0, 1, 5 and 15 over the font, and a sprite that runs off ram.
DrawRoms(x, y) ==
    {DrawRom(x, y, 0, 0), DrawRom(x, y, 1, 0), DrawRom(x, y, 5, 0),
     DrawRom(x, y, 15, 65), DrawRom(x, y, 5, RAM_SIZE - 2)}

\* The same with V[0xF] or one register as a coordinate.
DrawAliasRoms ==
    {DrawRom(p[1], p[2], 5, 0) : p \in {<<2, 15>>, <<15, 0>>, <<2, 2>>}}

\* A chain of d nested subroutines: word 0 calls S1 and word 1 stays; Sk is
\* the pair of words 2k, 2k + 1: call S(k+1), return; Sd returns at once.
ChainWord(n, d) ==
    IF n = 0 THEN OpA(2, AddrOf(2))
    ELSE IF n = 1 THEN Halt(1)
    ELSE IF n % 2 = 1 THEN 238
    ELSE IF n \div 2 < d THEN OpA(2, AddrOf(n + 2))
    ELSE 238

ChainRom(d) == Image([n \in 1..(2 * d + 2) |-> ChainWord(n - 1, d)])

\* A subroutine that calls itself, and a return with nothing to return to.
StackEdgeRoms == {Image(<<OpA(2, AddrOf(0))>>), Image(<<238, Halt(1)>>)}

\* Programs whose addresses reach the end of ram.
EdgeRoms ==
    {Image(<<Op(6, 0, 15, 15), OpA(11, RAM_SIZE - 1)>>),
     Image(<<OpA(1, RAM_SIZE - 2)>>),
     Image(<<Op(6, 2, 9, 13), OpA(10, RAM_SIZE - 1), Op(15, 2, 3, 3), Halt(3)>>),
     Image(<<Op(6, 2, 9, 13), OpA(10, RAM_SIZE - 2), Op(15, 2, 5, 5), Halt(3)>>),
     Image(<<OpA(10, RAM_SIZE - 2), Op(15, 2, 6, 5), Halt(2)>>),
     Image(<<Op(6, 2, 15, 15), OpA(10, RAM_SIZE - 1), Op(15, 2, 1, 14),
             Op(15, 2, 3, 3), Halt(4)>>),
     Image(<<Op(6, 2, 15, 15), Op(15, 2, 2, 9), Op(15, 2, 3, 3), Halt(3)>>)}

\* The image 60 05 61 03 80 14 (V0 = 5, V1 = 3, V0 += V1); the zero bytes
\* after it are executed up to the end of ram.
ExampleRom == Image(<<Op(6, 0, 0, 5), Op(6, 1, 0, 3), Op(8, 0, 1, 4)>>)

\* A longer image that ends in data bytes: it stores 9 in the last byte
\* below PROGRAM_START and stays.
LongerRom ==
    Image(<<Op(6, 0, 0, 9), OpA(10, PROGRAM_START - 1), Op(15, 0, 5, 5),
            Halt(3), 65535>>)

LoadRoms == {ExampleRom, LongerRom}

\* The largest image that fits, 12 00 repeated up to the last byte of ram,
\* and the shortest that stays.
FullRom ==
    [k \in 1..(RAM_SIZE - PROGRAM_START) |-> IF k % 2 = 1 THEN 18 ELSE 0]

FullRoms == {FullRom, Image(<<Halt(0)>>)}

\* A file one byte longer than fits.
OversizeRom ==
    [k \in 1..(RAM_SIZE - PROGRAM_START + 1) |-> IF k % 2 = 1 THEN 18 ELSE 0]

OversizeRoms == {OversizeRom, Image(<<Halt(0)>>)}

\* delay = 2, sound = 1, then FX0A, then V2 = delay, then stay.
TimerRoms ==
    {Image(<<Op(6, 0, 0, 2), Op(15, 0, 1, 5), Op(6, 0, 0, 1), Op(15, 0, 1, 8),
             Op(15, 1, 0, 10), Op(15, 2, 0, 7), Halt(6)>>)}

\* Instruction words that are no instruction.
UnknownWords ==
    {0, Op(5, 0, 1, 1), Op(8, 0, 1, 8), Op(9, 0, 2, 1), Op(14, 0, 0, 0),
     Op(15, 0, 15, 15), Op(0, 0, 14, 1), Op(8, 0, 1, 15), Op(14, 0, 9, 15),
     Op(15, 0, 0, 0)}

\* V0 = V1 = 5, I = 0x123, one word that is no instruction, then stay.
UnknownRoms ==
    {Image(<<Op(6, 0, 0, 5), Op(6, 1, 0, 5), OpA(10, 291), w, Halt(4)>>) :
        w \in UnknownWords}

\* V0 and V1 drawn at random, then one conditional skip on them, then two
\* words to stay at.
SkipRoms ==
    {Image(<<Op(12, 0, 15, 15), Op(12, 1, 15, 15), w, Halt(3), Halt(4)>>) :
        w \in {Op(3, 0, 0, 1), Op(4, 0, 0, 1), Op(5, 0, 1, 0), Op(9, 0, 1, 0),
               Op(14, 0, 9, 14), Op(14, 0, 10, 1)}}

\* I = 0x300 with 0xAA at 0x2FF..0x303, V2 = 157 or drawn at random, then
\* FX33, then stay.
BcdRom(w) ==
    Image(<<Op(6, 0, 10, 10), Op(6, 1, 10, 10), Op(6, 2, 10, 10),
            Op(6, 3, 10, 10), Op(6, 4, 10, 10), OpA(10, 767), Op(15, 4, 5, 5),
            OpA(10, 768), w, Op(15, 2, 3, 3), Halt(10)>>)

BcdRoms == {BcdRom(Op(6, 2, 9, 13)), BcdRom(Op(12, 2, 15, 15))}

\* V0, V1, V3, VF set (V2 left 0), I = 0x300, FX55; the registers set to
\* other values, I = 0x300 again, FX65; then stay.
RegsRom(x) ==
    Image(<<Op(6, 0, 1, 1), Op(6, 1, 2, 2), Op(6, 3, 4, 4), Op(6, 15, 15, 0),
            OpA(10, 768), Op(15, x, 5, 5),
            Op(6, 0, 0, 1), Op(6, 1, 0, 2), Op(6, 2, 0, 3), Op(6, 3, 0, 4),
            Op(6, 15, 0, 5), OpA(10, 768), Op(15, x, 6, 5), Halt(13)>>)

RegsRoms == {RegsRom(x) : x \in RegSample}

\* VF = 1, V[x] = 255, then 7X02, then stay.
AddRoms ==
    {Image(<<Op(6, 15, 0, 1), Op(6, x, 15, 15), Op(7, x, 0, 2), Halt(3)>>) :
        x \in RegSample}

\* What a run is given: roms, the images it may load; pad, the hexpad
\* digits whose state the driver reports; builds, how the build may shift a
\* row by 64 or more (one build is followed where no image draws).
Scenario(r, p, b) == [roms |-> r, pad |-> p, builds |-> b]

Scenarios ==
    {Scenario(KeyRoms, {1, 15}, {TRUE}),
     Scenario({ChainRom(1), ChainRom(2)}, {15}, {TRUE}),
     Scenario({ChainRom(NUM_STACK)}, {15}, {TRUE}),
     Scenario({ChainRom(NUM_STACK + 1)}, {15}, {TRUE}),
     Scenario(StackEdgeRoms, {15}, {TRUE}),
     Scenario(EdgeRoms, {15}, {TRUE}),
     Scenario(LoadRoms, {15}, {TRUE}),
     Scenario(FullRoms, {15}, {TRUE}),
     Scenario(OversizeRoms, {15}, {TRUE}),
     Scenario(TimerRoms, {15}, {TRUE}),
     Scenario(UnknownRoms, {15}, {TRUE}),
     Scenario(SkipRoms, {1}, {TRUE}),
     Scenario(BcdRoms, {15}, {TRUE}),
     Scenario(RegsRoms, {15}, {TRUE}),
     Scenario(AddRoms, {15}, {TRUE}),
     Scenario(DrawRoms(0, 2), {15}, BOOLEAN),
     Scenario(DrawAliasRoms, {15}, BOOLEAN)}
    \cup {Scenario(AluRoms(k), {15}, {TRUE}) :
            k \in {0, 1, 2, 3, 4, 5, 6, 7, 14}}

----------------------------------------------------------------------------
(* The emulator of emulator.c around the machine: its clock, its buzzer,   *)
(* the ROM it read from a file and the position of Emulator_Run. The       *)
(* screen only displays the machine and is left out.                       *)

CLOCK_FREQ_MIN == 1
CLOCK_FREQ_DEFAULT == 600
CLOCK_FREQ_MAX == 1000
TIMER_FREQ == 60
REFRESH_FREQ == 60

\* const double ns of CalculatePeriod
NS == 1000000000

\* (Uint64)((1.0 / freq) * ns): for every whole freq of 1..1000 the double
\* product, truncated, is the integer quotient.
CalculatePeriod(freq) == NS \div freq

\* Mutant: SetFrequency leaves the period as it was.
SetFrequency_KeepsPeriod(e, value) ==
    LET clamped == IF value < CLOCK_FREQ_MIN THEN CLOCK_FREQ_MIN
                   ELSE IF value > CLOCK_FREQ_MAX THEN CLOCK_FREQ_MAX
                   ELSE value
    IN  [e EXCEPT !.clock_freq = clamped]

SetFrequency(e, value) ==
    LET clamped == IF value < CLOCK_FREQ_MIN THEN CLOCK_FREQ_MIN
                   ELSE IF value > CLOCK_FREQ_MAX THEN CLOCK_FREQ_MAX
                   ELSE value
    IN  [e EXCEPT !.clock_freq = clamped,
                  !.clock_period = CalculatePeriod(clamped)]

AddFrequency(e, value) == SetFrequency(e, e.clock_freq + value)

ResetFrequency(e) == SetFrequency(e, CLOCK_FREQ_DEFAULT)

\* memset(emulator, 0, sizeof(*emulator)): a null rom is the empty sequence,
\* and the fields after timer_period are the locals of Emulator_Run and
\* counts of what the current iteration of its loop has done.
ZeroEmulator ==
    [paused |-> FALSE, running |-> FALSE,
     clock_freq |-> 0, clock_period |-> 0, timer_period |-> 0,
     refresh_period |-> 0,
     rom |-> <<>>, device |-> FALSE, disabled |-> FALSE, queued |-> "none",
     path |-> <<>>, held |-> {},
     at |-> "preload", delta_time |-> 0,
     clock_acc |-> 0, timer_acc |-> 0, refresh_acc |-> 0,
     frames |-> 0, events |-> 0, scans |-> 0, ticks |-> 0, steps |-> 0,
     timer_was |-> 0, clock_was |-> 0]

TimingInit(e) ==
    [e EXCEPT !.clock_freq = CLOCK_FREQ_DEFAULT,
              !.clock_period = CalculatePeriod(CLOCK_FREQ_DEFAULT),
              !.timer_period = CalculatePeriod(TIMER_FREQ),
              !.refresh_period = CalculatePeriod(REFRESH_FREQ)]

\* Buzzer_Init: device is whether an audio device could be opened.
Buzzer_Init(e, device) == [e EXCEPT !.device = device, !.disabled = FALSE]

Emulator_Init(device) == Buzzer_Init(TimingInit(ZeroEmulator), device)

Stop(e) == [e EXCEPT !.running = FALSE]

Pause(e) == [e EXCEPT !.paused = ~e.paused]

Buzzer_Disable(e) == [e EXCEPT !.disabled = ~e.disabled]

\* The samples Buzzer_Play queues on the device: 1.0f is a tone, 0.0f is
\* silence; without a device nothing is queued.
Buzzer_Play(e, sound) ==
    IF ~e.device THEN e
    ELSE [e EXCEPT !.queued = IF sound > 0 /\ ~e.disabled THEN "tone"
                              ELSE "silence"]

\* What a call leaves of the machine and the emulator, and what it returns.
Outcome(ok, c, e) == [ok |-> ok, chip |-> c, emu |-> e]

\* LoadProgram of emulator.c
Emu_LoadProgram(e, c, program) ==
    Outcome(TRUE, Chip8_LoadProgram(Chip8_Reset(c), program),
            [e EXCEPT !.paused = FALSE])

\* static uint8_t demo[] of LoadDefaultRom
demo ==
    <<110, 12, 96, 136, 97, 136, 98, 248, 99, 136, 100, 136, 162, 112, 244, 85,
      96, 0, 97, 0, 98, 248, 99, 0, 100, 0, 244, 85, 34, 46, 106, 10,
      250, 21, 250, 7, 58, 0, 18, 34, 34, 46, 126, 1, 18, 28, 96, 12,
      240, 41, 96, 16, 208, 229, 162, 112, 96, 24, 208, 229, 162, 117, 96, 32,
      208, 229, 96, 8, 240, 41, 96, 40, 208, 229, 0, 238>>

LoadDefaultRom(e, c) == Emu_LoadProgram(e, c, demo)

\* strchr(s, ch): the rest of s from the first ch on; null, the empty
\* sequence here, when s has no ch.
RECURSIVE strchr(_, _)
strchr(s, ch) ==
    IF s = <<>> THEN <<>>
    ELSE IF Head(s) = ch THEN s
    ELSE strchr(Tail(s), ch)

\* The test of LoadRom on the path: extension && strcmp(extension, ".ch8") == 0
HasExtension(path) ==
    LET extension == strchr(path, ".")
    IN  extension # <<>> /\ extension = <<".", "c", "h", "8">>

\* ReadRom: the buffer, or null; a file is found absent (fopen fails), cut
\* short (fread returns fewer bytes than its size) or whole.
ReadRom(file) == IF file.state = "whole" THEN file.bytes ELSE <<>>

\* Mutant: LoadRom resets the machine before it looks at the path.
LoadRom_ResetsFirst(e, c, path, file) ==
    IF ~HasExtension(path) \/ ReadRom(file) = <<>>
    THEN Outcome(FALSE, Chip8_Reset(c), e)
    ELSE Emu_LoadProgram([e EXCEPT !.rom = ReadRom(file)], c, ReadRom(file))

LoadRom(e, c, path, file) ==
    IF ~HasExtension(path) THEN Outcome(FALSE, c, e)
    ELSE IF ReadRom(file) = <<>> THEN Outcome(FALSE, c, e)
    ELSE Emu_LoadProgram([e EXCEPT !.rom = ReadRom(file)], c, ReadRom(file))

\* Emulator_Preload: path is null, the empty sequence, without an argument.
Emulator_Preload(e, c, path, file) ==
    IF path = <<>> THEN LoadDefaultRom(e, c) ELSE LoadRom(e, c, path, file)

\* Restart of emulator.c
Emu_Restart(e, c) == Outcome(TRUE, Chip8_Restart(c), [e EXCEPT !.paused = FALSE])

\* ProcessKeydownEvent, by key symbol; the cursor keys move only the screen.
ProcessKeydownEvent(e, c, sym) ==
    CASE sym = "ESCAPE" -> Outcome(TRUE, c, Stop(e))
      [] sym = "p" -> Outcome(TRUE, c, Pause(e))
      [] sym = "0" -> Emu_Restart(e, c)
      [] sym = "LEFTBRACKET" -> Outcome(TRUE, c, AddFrequency(e, -10))
      [] sym = "RIGHTBRACKET" -> Outcome(TRUE, c, AddFrequency(e, 10))
      [] sym = "EQUALS" -> Outcome(TRUE, c, ResetFrequency(e))
      [] sym = "BACKSPACE" -> LoadDefaultRom(e, c)
      [] sym = "l" -> Outcome(TRUE, c, Buzzer_Disable(e))
      [] OTHER -> Outcome(TRUE, c, e)

\* The loop of UpdateKeys from digit key on: held are the digits whose
\* mapped key the keyboard state reports as down.
RECURSIVE UpdateKeysFrom(_, _, _)
UpdateKeysFrom(c, digit, held) ==
    IF digit < NUM_KEYS
    THEN UpdateKeysFrom(Chip8_UpdateKey(c, digit, digit \in held), digit + 1, held)
    ELSE c

UpdateKeys(c, held) == UpdateKeysFrom(c, 0, held)

----------------------------------------------------------------------------
(* Driver: main runs Emulator_Init, Emulator_Preload and Emulator_Run; the *)
(* loop of Emulator_Run delivers key states, timer ticks and steps, and    *)
(* ProcessEvents restarts or loads.                                        *)

\* The call made last: op and, where they apply, its arguments, the values
\* the step drew and the word in the local i of Chip8_Step (-1 when the
\* step returned before fetching); size is the size argument of
\* Chip8_LoadProgram.
Call(op, digit, pressed, r, j, w) ==
    [op |-> op, digit |-> digit, pressed |-> pressed, rnd |-> r, junk |-> j,
     i |-> w, size |-> 0]

\* The instruction word the step from c fetches.
Instr(c, env) == Fetch(c, env.junk)

\* The local i of Chip8_Step when it returns.
StepWord(c, env) == IF Running(c) THEN Instr(c, env) ELSE -1

\* The calls not yet returned from, oldest first, after a step from c: a
\* call adds its own address and the sp it found, a return drops the newest.
CallsAfter(cs, c, env) ==
    LET op == IF Running(c) THEN Decode(Instr(c, env)) ELSE "none"
    IN  IF op = "call" THEN Append(cs, [addr |-> c.pc, sp |-> c.sp])
        ELSE IF op = "ret" /\ cs # <<>> THEN SubSeq(cs, 1, Len(cs) - 1)
        ELSE cs

\* The draws a step from c can make: each value is drawn only if the step
\* uses it.
Envs(c, wraps) ==
    {e \in [rnd : RandSample, junk : JunkSample, wraps : {wraps}] :
        /\ e.rnd = 0 \/ (Running(c) /\ Decode(Instr(c, e)) = "rnd")
        /\ \/ e.junk = 0
           \/ (\E a \in RamIndices(c, e) : a >= RAM_SIZE)
           \/ (\E s \in StackIndices(c, e) : s >= NUM_STACK)
           \/ (\E k \in KeyIndices(c, e) : k >= NUM_KEYS)}

\* Emulator_Init has run: the machine is as Chip8_Init leaves it.
Init ==
    /\ chip = Chip8_Init
    /\ emu = Emulator_Init(FALSE)
    /\ last = Call("init", 0, FALSE, 0, 0, -1)
    /\ calls = <<>>
    /\ faults = 0
    /\ \E s \in Scenarios :
          /\ roms = s.roms
          /\ pad = s.pad
          /\ shr_wraps \in s.builds

\* Emulator_Preload has run: Emulator_Run is executing.
InLoop == last.op # "init"

\* Whether memcpy(chip->ram + PROGRAM_START, program, size) stays in ram.
Fits(size) == size <= RAM_SIZE - PROGRAM_START

\* LoadRom and LoadProgram of emulator.c: the file read by ReadRom, whatever
\* its size, is passed to Chip8_Reset, then Chip8_LoadProgram. A copy that
\* runs past the end of ram leaves the bounds the C language defines.
LoadProgram ==
    /\ \E program \in roms :
          /\ Fits(Len(program)) \/ faults < MaxFaults
          /\ chip' = Chip8_LoadProgram(Chip8_Reset(chip), program)
          /\ last' = [Call("load", 0, FALSE, 0, 0, -1) EXCEPT
                        !.size = Len(program)]
          /\ faults' = IF Fits(Len(program)) THEN faults ELSE faults + 1
    /\ calls' = <<>>
    /\ UNCHANGED <<emu, shr_wraps, roms, pad>>

\* Restart of emulator.c
Restart ==
    /\ InLoop
    /\ chip' = Chip8_Restart(chip)
    /\ last' = Call("restart", 0, FALSE, 0, 0, -1)
    /\ calls' = <<>>
    /\ UNCHANGED <<emu, faults, shr_wraps, roms, pad>>

\* One call of the loop of UpdateKeys
UpdateKey ==
    /\ InLoop
    /\ \E digit \in pad, pressed \in BOOLEAN :
          /\ chip' = Chip8_UpdateKey(chip, digit, pressed)
          /\ last' = Call("key", digit, pressed, 0, 0, -1)
    /\ UNCHANGED <<emu, calls, faults, shr_wraps, roms, pad>>

\* UpdateTimers of emulator.c
UpdateTimers ==
    /\ InLoop
    /\ chip' = Chip8_UpdateTimers(chip)
    /\ last' = Call("timers", 0, FALSE, 0, 0, -1)
    /\ UNCHANGED <<emu, calls, faults, shr_wraps, roms, pad>>

\* UpdateCycle of emulator.c
Step ==
    /\ InLoop
    /\ faults < MaxFaults
    /\ \E env \in Envs(chip, shr_wraps) :
          /\ chip' = Chip8_Step(chip, env)
          /\ last' = Call("step", 0, FALSE, env.rnd, env.junk, StepWord(chip, env))
          /\ calls' = CallsAfter(calls, chip, env)
          /\ faults' = IF StepFaults(chip, env) THEN faults + 1 ELSE faults
    /\ UNCHANGED <<emu, shr_wraps, roms, pad>>

Next == LoadProgram \/ Restart \/ UpdateKey \/ UpdateTimers \/ Step

Spec == Init /\ [][Next]_vars

----------------------------------------------------------------------------
(* The decoder alone: every 16-bit word is put through the chain of        *)
(* Chip8_Step once.                                                        *)

DecodeInit ==
    /\ chip = Chip8_Init
    /\ emu = Emulator_Init(FALSE)
    /\ \E w \in 0..65535 : last = Call("fetched", 0, FALSE, 0, 0, w)
    /\ calls = <<>>
    /\ faults = 0
    /\ shr_wraps = TRUE
    /\ roms = {}
    /\ pad = {}

\* The chain selects a handler for the word in i.
DecodeWord ==
    /\ last.op = "fetched"
    /\ last' = [last EXCEPT !.op = Decode(last.i)]
    /\ UNCHANGED <<chip, emu, calls, faults, shr_wraps, roms, pad>>

DecodeSpec == DecodeInit /\ [][DecodeWord]_vars

----------------------------------------------------------------------------
(* Emulator_Run: main preloads a ROM and enters the loop; each iteration   *)
(* measures the time since the last one, drains the event queue, then,     *)
(* unless paused, scans the keys and discharges the timer and the clock    *)
(* accumulators, and last refreshes the screen.                            *)

\* Iterations of the loop that are followed.
MaxFrames == 2

\* Events found in the queue over the run.
MaxEvents == 2

\* delta_time of an iteration, in ns.
DtSample == {10000000, 34000000}

\* Key symbols of SDL_KEYDOWN events; UP stands for every key that does not
\* touch the machine or the emulator.
KeySyms ==
    {"ESCAPE", "p", "0", "LEFTBRACKET", "RIGHTBRACKET", "EQUALS", "BACKSPACE",
     "l", "UP"}

\* Paths given on the command line or dropped on the window: c.ch8,
\* ./c.ch8 and c.
PathSample ==
    {<<"c", ".", "c", "h", "8">>, <<".", "/", "c", ".", "c", "h", "8">>, <<"c">>}

\* 6002 F018 F10A 1200: sound = 2, then wait for a key into V1, again.
SoundWaitRom ==
    Image(<<Op(6, 0, 0, 2), Op(15, 0, 1, 8), Op(15, 1, 0, 10), OpA(1, AddrOf(0))>>)

\* The files a path may name.
Files ==
    {[state |-> "absent", bytes |-> <<>>], [state |-> "short", bytes |-> <<>>]}
    \cup {[state |-> "whole", bytes |-> p] : p \in roms}

EmuInit ==
    /\ chip = Chip8_Init
    /\ \E device \in BOOLEAN : emu = Emulator_Init(device)
    /\ last = Call("init", 0, FALSE, 0, 0, -1)
    /\ calls = <<>>
    /\ faults = 0
    /\ shr_wraps = TRUE
    /\ roms = {SoundWaitRom}
    /\ pad = {1, 15}

\* The machine and the records after the outcome o of an event handler or
\* of Emulator_Preload, the call made being the last call.
Apply(sym, o, size) ==
    /\ chip' = o.chip
    /\ last' = [Call(IF ~o.ok THEN "load_failed"
                     ELSE IF sym = "0" THEN "restart"
                     ELSE IF sym \in {"BACKSPACE", "file"} THEN "load"
                     ELSE "event", 0, FALSE, 0, 0, -1) EXCEPT !.size = size]
    /\ calls' = IF last'.op \in {"load", "restart"} THEN <<>> ELSE calls
    /\ faults' = IF last'.op = "load" /\ ~Fits(size) THEN faults + 1 ELSE faults
    /\ UNCHANGED <<shr_wraps, roms, pad>>

\* main: Emulator_Preload, and on success the head of Emulator_Run.
Preload ==
    /\ emu.at = "preload"
    /\ \E path \in {<<>>} \cup PathSample, file \in Files :
          LET o == Emulator_Preload(emu, chip, path, file)
              size == IF path = <<>> THEN Len(demo) ELSE Len(file.bytes)
          IN  /\ Apply("file", o, IF o.ok THEN size ELSE 0)
              /\ emu' = IF o.ok
                        THEN [o.emu EXCEPT !.at = "top", !.running = TRUE]
                        ELSE [o.emu EXCEPT !.at = "exit"]

\* while (emulator->running) found false
Leave ==
    /\ emu.at = "top"
    /\ ~emu.running
    /\ emu' = [emu EXCEPT !.at = "exit"]
    /\ UNCHANGED <<chip, last, calls, faults, shr_wraps, roms, pad>>

\* Timing: the head of an iteration.
Timing ==
    /\ emu.at = "top"
    /\ emu.running
    /\ emu.frames < MaxFrames
    /\ \E dt \in DtSample :
          emu' = [emu EXCEPT !.at = "events", !.delta_time = dt,
                             !.frames = @ + 1, !.scans = 0,
                             !.ticks = 0, !.steps = 0,
                             !.timer_was = emu.timer_acc,
                             !.clock_was = emu.clock_acc]
    /\ UNCHANGED <<chip, last, calls, faults, shr_wraps, roms, pad>>

\* SDL_QUIT or the window's close event
QuitEvent ==
    /\ emu.at = "events"
    /\ emu.events < MaxEvents
    /\ emu' = [Stop(emu) EXCEPT !.events = @ + 1]
    /\ last' = Call("event", 0, FALSE, 0, 0, -1)
    /\ UNCHANGED <<chip, calls, faults, shr_wraps, roms, pad>>

\* SDL_KEYDOWN
KeydownEvent ==
    /\ emu.at = "events"
    /\ emu.events < MaxEvents
    /\ \E sym \in KeySyms :
          LET o == ProcessKeydownEvent(emu, chip, sym)
          IN  /\ Apply(sym, o, IF sym = "BACKSPACE" THEN Len(demo) ELSE 0)
              /\ emu' = [o.emu EXCEPT !.events = @ + 1]

\* SDL_DROPFILE: ProcessDropFileEvent
DropFileEvent ==
    /\ emu.at = "events"
    /\ emu.events < MaxEvents
    /\ \E path \in PathSample, file \in Files :
          LET o == LoadRom(emu, chip, path, file)
          IN  /\ Apply("file", o, IF o.ok THEN Len(file.bytes) ELSE 0)
              /\ emu' = [o.emu EXCEPT !.events = @ + 1]

\* Mutant: the clock is discharged first and the keys are scanned last.
PhaseAfter_ClockFirst(at) ==
    CASE at = "events" -> "clock"
      [] at = "clock" -> "timers"
      [] at = "timers" -> "keys"
      [] at = "keys" -> "render"

\* The order of the processing of an iteration that is not paused.
PhaseAfter(at) ==
    CASE at = "events" -> "keys"
      [] at = "keys" -> "timers"
      [] at = "timers" -> "clock"
      [] at = "clock" -> "render"

\* The emulator on reaching a phase: each accumulator takes delta_time in
\* just before its loop.
Enter(e, at) ==
    CASE at = "timers" -> [e EXCEPT !.at = at, !.timer_acc = @ + e.delta_time]
      [] at = "clock" -> [e EXCEPT !.at = at, !.clock_acc = @ + e.delta_time]
      [] OTHER -> [e EXCEPT !.at = at]

\* SDL_PollEvent returns 0; then if (!emulator->paused).
EventsDone ==
    /\ emu.at = "events"
    /\ emu' = IF emu.paused THEN Enter(emu, "render")
              ELSE Enter(emu, PhaseAfter("events"))
    /\ UNCHANGED <<chip, last, calls, faults, shr_wraps, roms, pad>>

\* UpdateKeys
Scan ==
    /\ emu.at = "keys"
    /\ \E held \in SUBSET pad :
          /\ chip' = UpdateKeys(chip, held)
          /\ emu' = Enter([emu EXCEPT !.scans = @ + 1, !.held = held],
                          PhaseAfter("keys"))
    /\ last' = Call("scan", 0, FALSE, 0, 0, -1)
    /\ UNCHANGED <<calls, faults, shr_wraps, roms, pad>>

\* Mutant: the timer loop runs its body at most once in an iteration.
TimersDue_Once(e) == e.timer_acc >= e.timer_period /\ e.ticks = 0

\* while (timer_acc >= emulator->timer_period)
TimersDue(e) == e.timer_acc >= e.timer_period

\* The body of the timer loop: UpdateTimers of emulator.c
Tick ==
    /\ emu.at = "timers"
    /\ TimersDue(emu)
    /\ chip' = Chip8_UpdateTimers(chip)
    /\ emu' = Buzzer_Play([emu EXCEPT !.timer_acc = @ - emu.timer_period,
                                      !.ticks = @ + 1], chip'.sound)
    /\ last' = Call("timers", 0, FALSE, 0, 0, -1)
    /\ UNCHANGED <<calls, faults, shr_wraps, roms, pad>>

TimersDone ==
    /\ emu.at = "timers"
    /\ ~TimersDue(emu)
    /\ emu' = Enter(emu, PhaseAfter("timers"))
    /\ UNCHANGED <<chip, last, calls, faults, shr_wraps, roms, pad>>

\* while (clock_acc >= emulator->clock_period)
ClockDue(e) == e.clock_acc >= e.clock_period

\* The body of the clock loop: UpdateCycle
Cycle ==
    /\ emu.at = "clock"
    /\ ClockDue(emu)
    /\ faults < MaxFaults
    /\ \E env \in Envs(chip, shr_wraps) :
          /\ chip' = Chip8_Step(chip, env)
          /\ last' = Call("step", 0, FALSE, env.rnd, env.junk, StepWord(chip, env))
          /\ calls' = CallsAfter(calls, chip, env)
          /\ faults' = IF StepFaults(chip, env) THEN faults + 1 ELSE faults
    /\ emu' = [emu EXCEPT !.clock_acc = @ - emu.clock_period, !.steps = @ + 1]
    /\ UNCHANGED <<shr_wraps, roms, pad>>

ClockDone ==
    /\ emu.at = "clock"
    /\ ~ClockDue(emu)
    /\ emu' = Enter(emu, PhaseAfter("clock"))
    /\ UNCHANGED <<chip, last, calls, faults, shr_wraps, roms, pad>>

\* Render: Screen_Refresh reads the machine and changes none of it.
Render ==
    /\ emu.at = "render"
    /\ emu' = [emu EXCEPT
                 !.at = "top",
                 !.refresh_acc = IF @ + emu.delta_time >= emu.refresh_period
                                 THEN 0 ELSE @ + emu.delta_time]
    /\ UNCHANGED <<chip, last, calls, faults, shr_wraps, roms, pad>>

EmuNext ==
    \/ Preload \/ Leave \/ Timing
    \/ QuitEvent \/ KeydownEvent \/ DropFileEvent \/ EventsDone
    \/ Scan \/ Tick \/ TimersDone \/ Cycle \/ ClockDone \/ Render

EmuSpec == EmuInit /\ [][EmuNext]_vars

----------------------------------------------------------------------------
(* The frequency keys alone: [ and ] and = in any order, from the state    *)
(* TimingInit leaves.                                                      *)

FreqInit ==
    /\ chip = Chip8_Init
    /\ emu = Emulator_Init(FALSE)
    /\ last = Call("init", 0, FALSE, 0, 0, -1)
    /\ calls = <<>>
    /\ faults = 0
    /\ shr_wraps = TRUE
    /\ roms = {}
    /\ pad = {}

FreqKey(sym) ==
    /\ emu' = ProcessKeydownEvent(emu, chip, sym).emu
    /\ last' = Call(sym, 0, FALSE, 0, 0, -1)
    /\ UNCHANGED <<chip, calls, faults, shr_wraps, roms, pad>>

FreqNext == \E sym \in {"LEFTBRACKET", "RIGHTBRACKET", "EQUALS"} : FreqKey(sym)

FreqSpec == FreqInit /\ [][FreqNext]_vars

----------------------------------------------------------------------------
(* The path test of LoadRom alone: every path of up to MaxPathLen          *)
(* characters is put through it once.                                      *)

MaxPathLen == 7

PathChars == {".", "/", "c", "h", "8"}

\* The paths of n characters.
PathsOfLen(n) == [1..n -> PathChars]

PathInit ==
    /\ chip = Chip8_Init
    /\ \E n \in 1..MaxPathLen : \E p \in PathsOfLen(n) :
          emu = [Emulator_Init(FALSE) EXCEPT !.path = p]
    /\ last = Call("path", 0, FALSE, 0, 0, -1)
    /\ calls = <<>>
    /\ faults = 0
    /\ shr_wraps = TRUE
    /\ roms = {}
    /\ pad = {}

\* LoadRom up to the call of ReadRom.
TestPath ==
    /\ last.op = "path"
    /\ last' = [last EXCEPT !.op = IF HasExtension(emu.path) THEN "read"
                                   ELSE "rejected"]
    /\ UNCHANGED <<chip, emu, calls, faults, shr_wraps, roms, pad>>

PathSpec == PathInit /\ [][TestPath]_vars

----------------------------------------------------------------------------
(* Notions the properties share                                            *)

\* The draws of the step that was just made.
EnvOf(l) == [rnd |-> l.rnd, junk |-> l.junk, wraps |-> shr_wraps]

\* The call just made is a step that executed an instruction of handler op.
Stepped(l, op) == l.op = "step" /\ l.i >= 0 /\ Decode(l.i) = op

\* The instruction word stored at addresses a, a + 1 of ram.
WordAt(c, a) == RamAt(c.ram, a) * 256 + RamAt(c.ram, a + 1)

Waiting(c) == c.key_reg < NUM_REGISTERS

----------------------------------------------------------------------------
(* C1: while the waiting-for-key latch is set, a step changes no part of   *)
(* the machine: pc, sp, I, V, stack, ram, video, delay, sound, keys and    *)
(* the latch are as before, and no instruction is fetched.                 *)

C1_FrozenStep ==
    [][(last'.op = "step" /\ Waiting(chip)) => (chip' = chip /\ last'.i = -1)]_vars

\* A step has been made on a waiting machine.
C1_Witness == last.op = "step" /\ last.i = -1 /\ Waiting(chip)

----------------------------------------------------------------------------
(* C2: a key update (digit d, pressed) delivered while the latch waits on  *)
(* register r sets keys[d], writes d into V[r], clears the latch and       *)
(* changes nothing else; a waiting machine has its pc just past the FX0A   *)
(* that set the latch, so the next step fetches the instruction after it.  *)

C2_PastWait ==
    Waiting(chip) =>
        /\ chip.pc >= 2
        /\ Decode(WordAt(chip, chip.pc - 2)) = "wait"
        /\ X(WordAt(chip, chip.pc - 2)) = chip.key_reg

C2_Resolve ==
    (last'.op = "key" /\ last'.pressed /\ Waiting(chip)) =>
        chip' = [chip EXCEPT !.keys[last'.digit] = TRUE,
                             !.V[chip.key_reg] = last'.digit,
                             !.key_reg = NO_KEY_REG]

C2_KeyPressResolves == [] C2_PastWait /\ [][C2_Resolve]_vars

\* A press of digit d has just resolved a wait on V[2]: V[2] holds d, the
\* latch is clear and pc is just past the F20A.
C2_Witness ==
    /\ last.op = "key" /\ last.pressed
    /\ chip.key_reg = NO_KEY_REG
    /\ chip.keys[last.digit]
    /\ chip.V[2] = last.digit
    /\ WordAt(chip, chip.pc - 2) = Op(15, 2, 0, 10)

----------------------------------------------------------------------------
(* C3: once FX0A has set the latch to X, the latch keeps that value across *)
(* steps, timer ticks and key updates with pressed = false; it is cleared  *)
(* by, and only by, a key update with pressed = true, a restart or a reset.*)

Clears(l) == (l.op = "key" /\ l.pressed) \/ l.op \in {"restart", "load"}

C3_Latch ==
    /\ Stepped(last', "wait") => chip'.key_reg = X(last'.i)
    /\ Waiting(chip) =>
          IF Clears(last') THEN chip'.key_reg = NO_KEY_REG
          ELSE chip'.key_reg = chip.key_reg

C3_LatchPersists == [][C3_Latch]_vars

\* The latch on V[2] has outlived a key release.
C3_Witness == last.op = "key" /\ ~last.pressed /\ chip.key_reg = 2

----------------------------------------------------------------------------
(* C4: after a step executing 8XY4, for all X, Y (X = Y, X = F, Y = F      *)
(* included), VF = 1 if the pre-step V[X] + V[Y] exceeds 255 and 0         *)
(* otherwise, and V[X] is the pre-step sum modulo 256.                     *)

----------------------------------------------------------------------------
(* C5: after a step executing 8XY5, for all X, Y and all register          *)
(* contents, VF = 1 iff the pre-step V[X] >= V[Y], and V[X] is the         *)
(* pre-step V[X] - V[Y] modulo 256.                                        *)

C5_SubAllPairs ==
    [][Stepped(last', "subl") =>
        LET vx == chip.V[X(last'.i)]
            vy == chip.V[Y(last'.i)]
        IN  /\ chip'.V[15] = IF vx >= vy THEN 1 ELSE 0
            /\ chip'.V[X(last'.i)] = U8(vx - vy + 256)]_vars

----------------------------------------------------------------------------
(* C6: after a step executing 8XY6, VF is bit 0 of the pre-step V[Y];      *)
(* after 8XYE, VF is bit 7 of the pre-step V[Y]; for all X, Y (X = Y,      *)
(* X = F, Y = F included).                                                 *)

C6_ShiftFlag ==
    [][/\ Stepped(last', "rsh") =>
            chip'.V[15] = chip.V[Y(last'.i)] % 2
       /\ Stepped(last', "lsh") =>
            chip'.V[15] = (chip.V[Y(last'.i)] \div 128) % 2]_vars

----------------------------------------------------------------------------
(* C7: executing DXYN twice, with the same sprite bytes at I..I+N-1 and    *)
(* the same V[X], V[Y] at both executions, leaves all 32 display rows as   *)
(* they were before the first. Checked in every reachable state whose next *)
(* instruction is a draw, by drawing twice from it.                        *)

C7_DoubleDraw ==
    \A junk \in JunkSample :
        LET env == [rnd |-> 0, junk |-> junk, wraps |-> shr_wraps]
            i == Instr(chip, env)
            once == draw(chip, i, env)
            twice == draw(once, i, env)
        IN  (/\ InLoop /\ Running(chip) /\ Decode(i) = "draw"
             /\ once.V[X(i)] = chip.V[X(i)]
             /\ once.V[Y(i)] = chip.V[Y(i)])
            => twice.video = chip.video

\* D025 has run three times, at (1, 1), at (3, 1) and at (3, 1) again: the
\* display shows what the first draw alone puts on an empty screen.
C7_Witness ==
    /\ Stepped(last, "draw") /\ last.i = Op(13, 0, 2, 5)
    /\ chip.pc = AddrOf(7)
    /\ chip.V[0] = 3 /\ chip.V[2] = 1
    /\ chip.video[1] = {1, 2, 3, 4}
    /\ chip.video =
          draw(ClearScreen([chip EXCEPT !.V[0] = 1]), last.i, EnvOf(last)).video

----------------------------------------------------------------------------
(* C8: after a step executing DXYN, VF = 1 iff for some sprite row dy in   *)
(* 0..N-1 some column is lit both in the row's positioned sprite byte and  *)
(* in the pre-draw display row (V[Y] + dy) mod 32; otherwise VF = 0.       *)

\* The columns sprite byte b lights when placed at column x: bit k of the
\* byte, counted from the most significant, lands at column x + k.
Positioned(b, x) ==
    IF x < VIDEO_WIDTH
    THEN {col \in 0..(VIDEO_WIDTH - 1) :
            \E k \in 0..7 : col = x + k /\ (b \div (2 ^ (7 - k))) % 2 = 1}
    ELSE SpriteMask(b, x, shr_wraps)

C8_Collision ==
    [][Stepped(last', "draw") =>
        LET i == last'.i
            x == chip.V[X(i)]
            y == chip.V[Y(i)]
            hit == \E dy \in 0..(N(i) - 1) :
                      Positioned(ReadRam(chip.ram, chip.I + dy, last'.junk), x)
                        \cap chip.video[(y + dy) % VIDEO_HEIGHT] # {}
        IN  chip'.V[15] = IF hit THEN 1 ELSE 0]_vars

\* The second D02F, two columns to the right of the first, has hit lit
\* pixels in some rows though not in its last.
C8_Witness ==
    /\ Stepped(last, "draw") /\ last.i = Op(13, 0, 2, 15)
    /\ chip.pc = AddrOf(6)
    /\ chip.V[0] = 3
    /\ chip.V[15] = 1

----------------------------------------------------------------------------
(* C9: a 2NNN executed at address a while fewer than 16 calls are active,  *)
(* followed later by its matching 00EE, sets pc to a + 2 and sp to its     *)
(* value before the call; nested calls up to depth 16 return in            *)
(* last-in-first-out order. calls holds the calls not yet returned from,   *)
(* innermost last, so the matching call of a 00EE is its last element.     *)

C9_Matched ==
    /\ Stepped(last', "call") =>
          /\ chip'.pc = NNN(last'.i)
          /\ chip'.sp = U8(chip.sp + 1)
          /\ calls' = Append(calls, [addr |-> U16(chip.pc), sp |-> chip.sp])
    /\ (Stepped(last', "ret") /\ calls # <<>>
          /\ calls[Len(calls)].sp < NUM_STACK) =>
          /\ chip'.pc = U16(calls[Len(calls)].addr + 2)
          /\ chip'.sp = calls[Len(calls)].sp
          /\ calls' = SubSeq(calls, 1, Len(calls) - 1)

C9_CallReturn == [][C9_Matched]_vars

\* The chain of 16 nested subroutines has unwound completely: the last 00EE
\* has returned to the word after the outermost call, with sp back at 0.
C9_Witness ==
    /\ Stepped(last, "ret")
    /\ calls = <<>>
    /\ chip.sp = 0
    /\ chip.pc = AddrOf(1)
    /\ chip.stack[NUM_STACK - 1] = AddrOf(2 * NUM_STACK - 1)

----------------------------------------------------------------------------
(* C10: in every reachable state every memory index the next step reads or *)
(* writes (the fetch at pc and pc + 1, sprite rows at I..I+N-1, BCD digits *)
(* at I..I+2, FX55/FX65 transfers at I..I+X) lies in 0..4095.              *)

C10_IndicesInRam ==
    (InLoop /\ faults < MaxFaults) =>
        \A env \in Envs(chip, shr_wraps) :
            \A a \in RamIndices(chip, env) : a < RAM_SIZE

----------------------------------------------------------------------------
(* C11: the core's load-program operation copies the n supplied bytes to   *)
(* offsets 512..512+n-1 and then performs a warm restart, so that right    *)
(* after a load pc = 512, sp = 0, I = 0, registers, timers and display are *)
(* zero and the latch is clear; loading 60 05 61 03 80 14 and stepping     *)
(* three times yields V0 = 8, VF = 0, pc = 518.                            *)

\* The bytes of image p lie at PROGRAM_START onwards.
ProgramAt(c, p) ==
    \A k \in 1..Len(p) : RamAt(c.ram, PROGRAM_START + k - 1) = p[k]

\* Execution is about to begin at the first byte of the program.
Fresh(c) ==
    /\ c.pc = PROGRAM_START /\ c.sp = 0 /\ c.I = 0
    /\ \A r \in 0..(NUM_REGISTERS - 1) : c.V[r] = 0
    /\ c.delay = 0 /\ c.sound = 0
    /\ \A r \in 0..(VIDEO_HEIGHT - 1) : c.video[r] = {}
    /\ c.key_reg = NO_KEY_REG

\* As stated, of Chip8_LoadProgram called in any state of the running
\* emulator.
C11_CoreLoadRestarts ==
    InLoop =>
        \A p \in roms :
            LET c == Chip8_LoadProgram(chip, p)
            IN  ProgramAt(c, p) /\ Fresh(c)

\* Chip8_LoadProgram copies the image and changes nothing else, in ram or
\* out of it (a byte absent from both ram maps is 0 in both).
C11_CoreLoadCopies ==
    \A p \in {q \in roms : Fits(Len(q))} :
        LET c == Chip8_LoadProgram(chip, p)
        IN  /\ ProgramAt(c, p)
            /\ \A a \in (DOMAIN c.ram) \cup (DOMAIN chip.ram) :
                  (a < PROGRAM_START \/ a >= PROGRAM_START + Len(p))
                      => RamAt(c.ram, a) = RamAt(chip.ram, a)
            /\ c.V = chip.V /\ c.I = chip.I /\ c.pc = chip.pc /\ c.sp = chip.sp
            /\ c.stack = chip.stack /\ c.delay = chip.delay
            /\ c.sound = chip.sound /\ c.video = chip.video
            /\ c.keys = chip.keys /\ c.key_reg = chip.key_reg

\* LoadProgram of the emulator, which resets before it copies, leaves the
\* image in place and execution about to begin.
C11_LoadStarts ==
    (last'.op = "load" /\ Fits(last'.size)) =>
        /\ Fresh(chip')
        /\ \E p \in roms : Len(p) = last'.size /\ ProgramAt(chip', p)

\* Three steps from the state the load of the example image leaves.
C11_Example ==
    (last.op = "load" /\ ProgramAt(chip, ExampleRom)) =>
        LET env == [rnd |-> 0, junk |-> 0, wraps |-> shr_wraps]
            c == Chip8_Step(Chip8_Step(Chip8_Step(chip, env), env), env)
        IN  c.V[0] = 8 /\ c.V[15] = 0 /\ c.pc = PROGRAM_START + 6

\* Amended: the copy alone restarts nothing; the emulator's load does.
C11_LoadAmended ==
    /\ [] C11_CoreLoadCopies
    /\ [][C11_LoadStarts]_vars
    /\ [] C11_Example

\* The example image has been stepped three times since it was loaded.
C11_Witness ==
    /\ Stepped(last, "addv") /\ last.i = Op(8, 0, 1, 4)
    /\ ProgramAt(chip, ExampleRom)
    /\ chip.V[0] = 8 /\ chip.V[1] = 3 /\ chip.V[15] = 0
    /\ chip.pc = PROGRAM_START + 6

----------------------------------------------------------------------------
(* C12: after a full reset followed by a load of an image of length        *)
(* n <= 3584, memory bytes 0..511 are what they were before the reset,     *)
(* bytes 512..512+n-1 equal the image and bytes 512+n..4095 are zero.      *)

\* The byte the load of image p leaves at address a of ram that held `old`.
\* A byte absent from the ram maps before and after is 0 in both, as asked.
AfterLoad(old, p, a) ==
    IF a < PROGRAM_START THEN RamAt(old, a)
    ELSE IF a < PROGRAM_START + Len(p) THEN p[a - PROGRAM_START + 1]
    ELSE 0

C12_ResetThenLoad ==
    [][(last'.op = "load" /\ last'.size <= RAM_SIZE - PROGRAM_START) =>
        \E p \in roms :
            /\ Len(p) = last'.size
            /\ \A a \in (DOMAIN chip.ram) \cup (DOMAIN chip'.ram)
                          \cup PROGRAM_START..(PROGRAM_START + Len(p) - 1) :
                  RamAt(chip'.ram, a) = AfterLoad(chip.ram, p, a)]_vars

\* The short image has been loaded over the longer one, which had run and
\* stored 9 at 511: that byte is kept, the longer image's tail is gone.
C12_Witness ==
    /\ last.op = "load"
    /\ ProgramAt(chip, ExampleRom)
    /\ RamAt(chip.ram, PROGRAM_START - 1) = 9
    /\ RamAt(chip.ram, 0) = Font[1]
    /\ \A a \in (PROGRAM_START + Len(ExampleRom))..(PROGRAM_START + Len(LongerRom)) :
          RamAt(chip.ram, a) = 0

----------------------------------------------------------------------------
(* C13: after a warm restart from any prior state all 16 registers are 0,  *)
(* all 32 display rows are 0, delay = 0, sound = 0, pc = 512, sp = 0,      *)
(* I = 0 and the latch is not waiting.                                     *)

C13_RestartClears ==
    [][last'.op = "restart" =>
        /\ \A r \in 0..(NUM_REGISTERS - 1) : chip'.V[r] = 0
        /\ \A r \in 0..(VIDEO_HEIGHT - 1) : chip'.video[r] = {}
        /\ chip'.delay = 0 /\ chip'.sound = 0
        /\ chip'.pc = PROGRAM_START /\ chip'.sp = 0 /\ chip'.I = 0
        /\ ~Waiting(chip')]_vars

\* The restart came after the longer image had run to its end: its store
\* at 511 is in ram, and the registers it set are 0 again.
C13_Witness ==
    /\ last.op = "restart"
    /\ ProgramAt(chip, LongerRom)
    /\ RamAt(chip.ram, PROGRAM_START - 1) = 9
    /\ chip.V[0] = 0 /\ chip.I = 0 /\ chip.pc = PROGRAM_START

----------------------------------------------------------------------------
(* C14: after a warm restart from any prior state, whatever call depth was *)
(* reached before it, each of the 16 slots of the stack holds 0.           *)

C14_RestartZeroesStack ==
    [][last'.op = "restart" =>
        \A k \in 0..(NUM_STACK - 1) : chip'.stack[k] = 0]_vars

----------------------------------------------------------------------------
(* C15: a warm restart leaves all 4096 memory bytes and the 16 key states  *)
(* unchanged.                                                              *)

C15_RestartKeeps ==
    [][last'.op = "restart" =>
        /\ \A a \in (DOMAIN chip.ram) \cup (DOMAIN chip'.ram) :
              RamAt(chip'.ram, a) = RamAt(chip.ram, a)
        /\ \A k \in 0..(NUM_KEYS - 1) : chip'.keys[k] = chip.keys[k]]_vars

\* A restart with key F held down and the longer image, with the byte it
\* stored below PROGRAM_START, in ram.
C15_Witness ==
    /\ last.op = "restart"
    /\ chip.keys[15]
    /\ ProgramAt(chip, LongerRom)
    /\ RamAt(chip.ram, PROGRAM_START - 1) = 9
    /\ RamAt(chip.ram, FONT_GLYPH_SIZE * NUM_KEYS - 1) = Font[Len(Font)]

----------------------------------------------------------------------------
(* C16: a full reset produces exactly the state that a warm restart        *)
(* followed by zeroing memory offsets 512..4095 produces; memory bytes     *)
(* 0..511 are not modified by it.                                          *)

\* ram with offsets PROGRAM_START..RAM_SIZE-1 zeroed.
ProgramErased(ram) ==
    [a \in {x \in DOMAIN ram : x < PROGRAM_START} |-> ram[a]]

\* Chip8_Reset applied in any reachable state.
C16_ResetOfState ==
    LET full == Chip8_Reset(chip)
        warm == Chip8_Restart(chip)
    IN  /\ full = [warm EXCEPT !.ram = ProgramErased(warm.ram)]
        /\ \A a \in (DOMAIN chip.ram) \cup (DOMAIN full.ram) :
              RamAt(full.ram, a) = IF a < PROGRAM_START THEN RamAt(chip.ram, a)
                                   ELSE 0

\* Chip8_Reset as LoadProgram of the emulator calls it.
C16_ResetInLoad ==
    last'.op = "load" =>
        \E p \in roms :
            chip' = Chip8_LoadProgram(
                      [Chip8_Restart(chip) EXCEPT !.ram = ProgramErased(chip.ram)],
                      p)

C16_ResetIsRestartAndErase == [] C16_ResetOfState /\ [][C16_ResetInLoad]_vars

\* The longer image has run to its end: a full reset of this state erases
\* the image, keeps its byte at 511 and the font, and zeroes V0 and I.
C16_Witness ==
    /\ ProgramAt(chip, LongerRom)
    /\ chip.V[0] = 9 /\ chip.I = PROGRAM_START /\ chip.pc = AddrOf(3)
    /\ RamAt(Chip8_Reset(chip).ram, PROGRAM_START - 1) = 9
    /\ RamAt(Chip8_Reset(chip).ram, 0) = Font[1]
    /\ \A a \in PROGRAM_START..(PROGRAM_START + Len(LongerRom)) :
          RamAt(Chip8_Reset(chip).ram, a) = 0
    /\ Chip8_Reset(chip).V[0] = 0 /\ Chip8_Reset(chip).I = 0

----------------------------------------------------------------------------
(* C17: after a successful initialize, memory bytes 5d..5d+4 hold the      *)
(* glyph of hexadecimal digit d for every d in 0..15, every other memory   *)
(* byte is 0, all registers, stack slots, display rows, timers and key     *)
(* states are 0, pc = 512, sp = 0, I = 0 and the latch is not waiting.     *)

C17_Initialized ==
    last.op = "init" =>
        /\ \A d \in 0..(NUM_KEYS - 1) : \A k \in 0..(FONT_GLYPH_SIZE - 1) :
              RamAt(chip.ram, FONT_GLYPH_SIZE * d + k)
                  = Font[FONT_GLYPH_SIZE * d + k + 1]
        /\ \A a \in DOMAIN chip.ram :
              a >= FONT_GLYPH_SIZE * NUM_KEYS => chip.ram[a] = 0
        /\ \A r \in 0..(NUM_REGISTERS - 1) : chip.V[r] = 0
        /\ \A k \in 0..(NUM_STACK - 1) : chip.stack[k] = 0
        /\ \A r \in 0..(VIDEO_HEIGHT - 1) : chip.video[r] = {}
        /\ chip.delay = 0 /\ chip.sound = 0
        /\ \A k \in 0..(NUM_KEYS - 1) : ~chip.keys[k]
        /\ chip.pc = PROGRAM_START /\ chip.sp = 0 /\ chip.I = 0
        /\ ~Waiting(chip)

\* Chip8_Init has returned and nothing else has run: the glyph of F ends at
\* byte 79.
C17_Witness ==
    /\ last.op = "init"
    /\ chip = Chip8_Init
    /\ RamAt(chip.ram, 75) = 240 /\ RamAt(chip.ram, 79) = 128
    /\ RamAt(chip.ram, 80) = 0

----------------------------------------------------------------------------
(* C18: each timer tick decrements delay by exactly 1 if delay > 0 and     *)
(* sound by exactly 1 if sound > 0, leaves a timer that is 0 at 0, and     *)
(* changes nothing else; the timers are updated independently of each      *)
(* other and of the waiting latch.                                         *)

C18_TimerTick ==
    [][last'.op = "timers" =>
        /\ chip'.delay = IF chip.delay > 0 THEN chip.delay - 1 ELSE 0
        /\ chip'.sound = IF chip.sound > 0 THEN chip.sound - 1 ELSE 0
        /\ [chip' EXCEPT !.delay = 0, !.sound = 0]
              = [chip EXCEPT !.delay = 0, !.sound = 0]]_vars

\* A tick while the machine waits for a key has taken delay from 2 to 1 and
\* sound from 1 to 0.
C18_Witness ==
    /\ last.op = "timers"
    /\ Waiting(chip)
    /\ chip.delay = 1 /\ chip.sound = 0
    /\ chip.pc = AddrOf(5)

----------------------------------------------------------------------------
(* C19: a step whose fetched word matches none of the opcode patterns      *)
(* (for example 0x0000, 0x5XY1, 0x8XY8, 0x9XY1, 0xEX00, 0xFXFF) changes    *)
(* only pc, which advances by 2; registers, I, sp, stack, memory, display, *)
(* timers, keys and latch are unchanged.                                   *)

C19_Skipped ==
    (/\ last'.op = "step" /\ last'.i >= 0
     /\ chip.pc + 1 < RAM_SIZE
     /\ Matching(last'.i) = {})
    => chip' = [chip EXCEPT !.pc = chip.pc + 2]

C19_UnknownSkipped ==
    /\ [] (\A w \in UnknownWords : Matching(w) = {})
    /\ [][C19_Skipped]_vars

\* 5011 has been stepped over with V0 = V1 = 5: one word, not two.
C19_Witness ==
    /\ last.op = "step" /\ last.i = Op(5, 0, 1, 1)
    /\ chip.V[0] = 5 /\ chip.V[1] = 5 /\ chip.I = 291
    /\ chip.pc = AddrOf(4)

----------------------------------------------------------------------------
(* C20: for every 16-bit instruction word at most one of the decoder's     *)
(* mask/value pairs matches, so the handler first-match-wins decoding      *)
(* chooses is the same for every order of the tests. Checked on            *)
(* DecodeSpec, which puts each of the 65536 words through the chain.       *)

C20_OnePattern ==
    /\ Cardinality(Matching(last.i)) <= 1
    /\ last.op # "fetched" =>
          /\ Matching(last.i) = {} => last.op = "none"
          /\ \A k \in Matching(last.i) : last.op = Patterns[k].op

\* 8XY1 with X = 3, Y = 4 was decoded: it matches the test of `or` alone.
C20_Witness ==
    /\ last.op = "or" /\ last.i = Op(8, 3, 4, 1)
    /\ Cardinality(Matching(last.i)) = 1

----------------------------------------------------------------------------
(* C21: when the latch is not set, a step forms the instruction word as    *)
(* mem[pc] * 256 + mem[pc+1] and advances pc by 2 before executing it; for *)
(* every instruction other than a jump (1NNN, BNNN), call, return or a     *)
(* skip whose condition holds, pc after the step is pc before it plus 2.   *)

\* Whether the skip instruction i, executed from c by the step l, finds its
\* condition true.
SkipHolds(c, l) ==
    LET i == l.i
        op == Decode(i)
    IN  CASE op = "eq" -> c.V[X(i)] = NN(i)
          [] op = "neq" -> c.V[X(i)] # NN(i)
          [] op = "eqv" -> c.V[X(i)] = c.V[Y(i)]
          [] op = "neqv" -> c.V[X(i)] # c.V[Y(i)]
          [] op = "key" -> KeyAt(c, c.V[X(i)], EnvOf(l))
          [] op = "nkey" -> ~KeyAt(c, c.V[X(i)], EnvOf(l))
          [] OTHER -> FALSE

C21_Step ==
    (last'.op = "step" /\ ~Waiting(chip) /\ chip.pc + 1 < RAM_SIZE) =>
        /\ last'.i = RamAt(chip.ram, chip.pc) * 256 + RamAt(chip.ram, chip.pc + 1)
        /\ (Decode(last'.i) \notin {"jmp", "jmpn", "call", "ret"}
              /\ ~SkipHolds(chip, last'))
           => chip'.pc = chip.pc + 2
        /\ (Decode(last'.i) = "call" /\ chip.sp < NUM_STACK)
           => chip'.stack[chip.sp] = chip.pc + 2

C21_FetchAdvances == [][C21_Step]_vars

\* 60 05 at 0x200 has been fetched as 0x6005 and executed.
C21_Witness ==
    /\ last.op = "step" /\ last.i = Op(6, 0, 0, 5)
    /\ RamAt(chip.ram, PROGRAM_START) = 96
    /\ RamAt(chip.ram, PROGRAM_START + 1) = 5
    /\ chip.V[0] = 5
    /\ chip.pc = PROGRAM_START + 2

----------------------------------------------------------------------------
(* C22: a key update with pressed = false (latch set or not), and any key  *)
(* update while the latch is not set, changes only the state of the one    *)
(* key addressed; registers, latch, pc, memory, timers, display and the    *)
(* other 15 key states are unchanged.                                      *)

C22_KeyOnly ==
    [][(last'.op = "key" /\ (~last'.pressed \/ ~Waiting(chip))) =>
        /\ chip'.keys[last'.digit] = last'.pressed
        /\ \A k \in 0..(NUM_KEYS - 1) :
              k # last'.digit => chip'.keys[k] = chip.keys[k]
        /\ chip'.V = chip.V /\ chip'.key_reg = chip.key_reg
        /\ chip'.pc = chip.pc /\ chip'.sp = chip.sp /\ chip'.I = chip.I
        /\ chip'.stack = chip.stack /\ chip'.ram = chip.ram
        /\ chip'.delay = chip.delay /\ chip'.sound = chip.sound
        /\ chip'.video = chip.video]_vars

\* Key F was pressed while the longer image ran with nothing waiting: V0
\* still holds 9.
C22_Witness ==
    /\ last.op = "key" /\ last.pressed /\ last.digit = 15
    /\ ~Waiting(chip)
    /\ chip.keys[15]
    /\ ProgramAt(chip, LongerRom)
    /\ chip.V[0] = 9 /\ chip.pc = AddrOf(3)

----------------------------------------------------------------------------
(* C23: the stack slot accessed by call (slot sp before the increment) and *)
(* by return (slot sp - 1) is always one of the 16 slots 0..15: on a 17th  *)
(* nested call, or a return with sp = 0, the index wraps around instead of *)
(* addressing outside the stack.                                           *)

C23_StackIndexInside ==
    (InLoop /\ faults < MaxFaults) =>
        \A env \in Envs(chip, shr_wraps) :
            \A k \in StackIndices(chip, env) : k < NUM_STACK

----------------------------------------------------------------------------
(* C24: for every X # F, every Y in 0..15 (Y = F included) and all 8-bit   *)
(* register contents, after a step executing 8XY7 V[X] equals (pre-step    *)
(* V[Y] - pre-step V[X]) mod 256 and VF = 1 iff pre-step V[Y] >= pre-step  *)
(* V[X].                                                                   *)

C24_SubRev ==
    [][(Stepped(last', "subr") /\ X(last'.i) # 15) =>
        LET x == X(last'.i)
            y == Y(last'.i)
        IN  /\ chip'.V[x] = (chip.V[y] - chip.V[x] + 256) % 256
            /\ chip'.V[15] = IF chip.V[y] >= chip.V[x] THEN 1 ELSE 0]_vars

----------------------------------------------------------------------------
(* C25: for every X # F and every Y in 0..15 (Y = F and Y = X included),   *)
(* after a step executing 8XY6 V[X] equals the pre-step V[Y] shifted right *)
(* by one bit, and after 8XYE V[X] equals (pre-step V[Y] * 2) mod 256.     *)

C25_ShiftResult ==
    [][/\ (Stepped(last', "rsh") /\ X(last'.i) # 15) =>
             chip'.V[X(last'.i)] = chip.V[Y(last'.i)] \div 2
       /\ (Stepped(last', "lsh") /\ X(last'.i) # 15) =>
             chip'.V[X(last'.i)] = (chip.V[Y(last'.i)] * 2) % 256]_vars

----------------------------------------------------------------------------
(* C26: DXYN XORs sprite row dy (the byte at mem[I+dy]) into display row   *)
(* (V[Y] + dy) mod 32 with bit b of the byte (b = 0 the most significant)  *)
(* landing at column V[X] + b; bits whose column would be 64 or more are   *)
(* dropped, so that for V[X] >= 64 no display bit changes and VF = 0; rows *)
(* other than the N target rows are unchanged.                             *)

\* The columns sprite byte v lights at column x, bits past column 63
\* dropped.
Dropped(v, x) ==
    {col \in 0..(VIDEO_WIDTH - 1) :
        \E b \in 0..7 : col = x + b /\ (v \div (2 ^ (7 - b))) % 2 = 1}

\* Display row r after the draw i from c, as stated.
DrawnRow(c, i, junk, r) ==
    LET x == c.V[X(i)]
        y == c.V[Y(i)]
        rows == {dy \in 0..(N(i) - 1) : (y + dy) % VIDEO_HEIGHT = r}
    IN  IF rows = {} THEN c.video[r]
        ELSE LET dy == CHOOSE d \in rows : TRUE
                 m == Dropped(ReadRam(c.ram, c.I + dy, junk), x)
             IN  (c.video[r] \cup m) \ (c.video[r] \cap m)

C26_Draw ==
    Stepped(last', "draw") =>
        /\ \A r \in 0..(VIDEO_HEIGHT - 1) :
              chip'.video[r] = DrawnRow(chip, last'.i, last'.junk, r)
        /\ chip.V[X(last'.i)] >= VIDEO_WIDTH =>
              chip'.video = chip.video /\ chip'.V[15] = 0

C26_DrawClips == [][C26_Draw]_vars

----------------------------------------------------------------------------
(* C27: each conditional skip (3XNN, 4XNN, 5XY0, 9XY0, and EX9E / EXA1     *)
(* with V[X] in 0..15) leaves pc at the pre-step pc + 4 when its condition *)
(* holds and at pre-step pc + 2 when it does not, and changes nothing      *)
(* other than pc.                                                          *)

C27_Skip ==
    (/\ last'.op = "step" /\ last'.i >= 0
     /\ Decode(last'.i) \in {"eq", "neq", "eqv", "neqv", "key", "nkey"}
     /\ Decode(last'.i) \in {"key", "nkey"} => chip.V[X(last'.i)] < NUM_KEYS
     /\ chip.pc + 1 < RAM_SIZE)
    => chip' = [chip EXCEPT
                  !.pc = chip.pc + IF SkipHolds(chip, last') THEN 4 ELSE 2]

C27_ConditionalSkips == [][C27_Skip]_vars

\* E09E has skipped the word after it: V0 = 1 and key 1 is down.
C27_Witness ==
    /\ last.op = "step" /\ last.i = Op(14, 0, 9, 14)
    /\ chip.V[0] = 1 /\ chip.keys[1]
    /\ chip.pc = AddrOf(4)

----------------------------------------------------------------------------
(* C28: for every value v of V[X] in 0..255, FX33 stores v div 100 at      *)
(* mem[I], (v div 10) mod 10 at mem[I+1] and v mod 10 at mem[I+2], so that *)
(* 100*mem[I] + 10*mem[I+1] + mem[I+2] = v with each stored byte in 0..9;  *)
(* I, the registers and all other memory bytes are unchanged.              *)

\* ram holds the three decimal digits of v at address a.
DigitsAt(ram, a, v) ==
    /\ RamAt(ram, a) = v \div 100
    /\ RamAt(ram, a + 1) = (v \div 10) % 10
    /\ RamAt(ram, a + 2) = v % 10
    /\ 100 * RamAt(ram, a) + 10 * RamAt(ram, a + 1) + RamAt(ram, a + 2) = v
    /\ \A k \in 0..2 : RamAt(ram, a + k) \in 0..9

\* The FX33 a step executes.
C28_BcdStep ==
    (Stepped(last', "bcd") /\ chip.I + 2 < RAM_SIZE) =>
        /\ DigitsAt(chip'.ram, chip.I, chip.V[X(last'.i)])
        /\ \A a \in (DOMAIN chip.ram) \cup (DOMAIN chip'.ram) :
              a \notin chip.I..(chip.I + 2)
                  => RamAt(chip'.ram, a) = RamAt(chip.ram, a)
        /\ chip' = [chip EXCEPT !.pc = chip.pc + 2, !.ram = chip'.ram]

\* The FX33 about to be executed, for every value its register can hold.
C28_BcdAllValues ==
    \A junk \in JunkSample :
        LET env == [rnd |-> 0, junk |-> junk, wraps |-> shr_wraps]
            i == Instr(chip, env)
        IN  (/\ InLoop /\ Running(chip) /\ Decode(i) = "bcd"
             /\ chip.I + 2 < RAM_SIZE) =>
                \A v \in 0..255 :
                    LET c == bcd([chip EXCEPT !.V[X(i)] = v], i)
                    IN  /\ DigitsAt(c.ram, chip.I, v)
                        /\ c = [chip EXCEPT !.V[X(i)] = v, !.ram = c.ram]

C28_Bcd == [] C28_BcdAllValues /\ [][C28_BcdStep]_vars

\* F233 with V2 = 157 and I = 0x300 has stored 1, 5, 7 between bytes that
\* still hold 0xAA.
C28_Witness ==
    /\ Stepped(last, "bcd") /\ last.i = Op(15, 2, 3, 3)
    /\ chip.V[2] = 157 /\ chip.I = 768
    /\ RamAt(chip.ram, 767) = 170
    /\ RamAt(chip.ram, 768) = 1 /\ RamAt(chip.ram, 769) = 5
    /\ RamAt(chip.ram, 770) = 7
    /\ RamAt(chip.ram, 771) = 170

----------------------------------------------------------------------------
(* C29: FX55 copies V[0..X] to mem[I..I+X] and FX65 copies mem[I..I+X]     *)
(* into V[0..X], each leaving I increased by X + 1; registers V[X+1..15]   *)
(* (FX65) and memory bytes outside I..I+X (FX55) are unchanged, and FX55   *)
(* followed by restoring I and FX65 with the same X restores V[0..X].      *)
(* In the source the handler of FX55 is named load and that of FX65 fill.  *)

C29_Store ==
    (Stepped(last', "load") /\ chip.I + X(last'.i) < RAM_SIZE) =>
        LET x == X(last'.i)
        IN  /\ \A r \in 0..x : RamAt(chip'.ram, chip.I + r) = chip.V[r]
            /\ \A a \in (DOMAIN chip.ram) \cup (DOMAIN chip'.ram) :
                  a \notin chip.I..(chip.I + x)
                      => RamAt(chip'.ram, a) = RamAt(chip.ram, a)
            /\ chip'.I = chip.I + x + 1
            /\ chip' = [chip EXCEPT !.pc = chip.pc + 2, !.ram = chip'.ram,
                                    !.I = chip'.I]

C29_Fetch ==
    (Stepped(last', "fill") /\ chip.I + X(last'.i) < RAM_SIZE) =>
        LET x == X(last'.i)
        IN  /\ \A r \in 0..(NUM_REGISTERS - 1) :
                  chip'.V[r] = IF r <= x THEN RamAt(chip.ram, chip.I + r)
                               ELSE chip.V[r]
            /\ chip'.I = chip.I + x + 1
            /\ chip' = [chip EXCEPT !.pc = chip.pc + 2, !.V = chip'.V,
                                    !.I = chip'.I]

\* FX55 about to be executed, then I put back and FX65 with the same X.
C29_RoundTrip ==
    \A junk \in JunkSample :
        LET env == [rnd |-> 0, junk |-> junk, wraps |-> shr_wraps]
            i == Instr(chip, env)
            stored == load(chip, i)
            back == fill([stored EXCEPT !.I = chip.I], Op(15, X(i), 6, 5), env)
        IN  (/\ InLoop /\ Running(chip) /\ Decode(i) = "load"
             /\ chip.I + X(i) < RAM_SIZE) =>
                \A r \in 0..X(i) : back.V[r] = chip.V[r]

C29_Transfers == [] C29_RoundTrip /\ [][C29_Store /\ C29_Fetch]_vars

\* F265 has brought back the V0..V2 that F255 stored at 0x300; V3 keeps the
\* value set in between.
C29_Witness ==
    /\ Stepped(last, "fill") /\ last.i = Op(15, 2, 6, 5)
    /\ chip.V[0] = 17 /\ chip.V[1] = 34 /\ chip.V[2] = 0
    /\ chip.V[3] = 4 /\ chip.V[15] = 5
    /\ chip.I = 771
    /\ RamAt(chip.ram, 768) = 17 /\ RamAt(chip.ram, 769) = 34
    /\ RamAt(chip.ram, 771) = 0

----------------------------------------------------------------------------
(* C30: the loader rejects, without calling the core's load-program, every *)
(* program image longer than 3584 bytes, so that load-program is never     *)
(* invoked with a size that writes past memory offset 4095.                *)

C30_LoaderRejectsOversize ==
    [][last'.op = "load" => PROGRAM_START + last'.size - 1 < RAM_SIZE]_vars

----------------------------------------------------------------------------
(* C31: LoadRom goes on to read the file exactly when the file name of the *)
(* path ends in .ch8: every such path is accepted, also with a dot in a    *)
(* directory component or a leading ./, and every other path is rejected.  *)

\* The part of path after its last slash.
FileNameOf(path) ==
    LET slashes == {k \in 1..Len(path) : path[k] = "/"}
        from == IF slashes = {} THEN 1
                ELSE 1 + CHOOSE k \in slashes : \A j \in slashes : j <= k
    IN  SubSeq(path, from, Len(path))

EndsInCh8(name) ==
    /\ Len(name) >= 4
    /\ SubSeq(name, Len(name) - 3, Len(name)) = <<".", "c", "h", "8">>

C31_ExtensionIff ==
    last.op # "path" =>
        (last.op = "read" <=> EndsInCh8(FileNameOf(emu.path)))

----------------------------------------------------------------------------
(* C32: in every iteration of the main loop that is not paused, the key    *)
(* states of all 16 digits are delivered before any timer tick of the      *)
(* iteration, and all its timer ticks are made before any of its steps.    *)

\* The machine holds the key states the scan of this iteration delivered.
KeysDelivered(c, e) ==
    /\ e.scans = 1
    /\ \A digit \in 0..(NUM_KEYS - 1) : c.keys[digit] <=> digit \in e.held

C32_Step ==
    /\ emu'.scans = emu.scans + 1 => emu.ticks = 0 /\ emu.steps = 0
    /\ emu'.ticks = emu.ticks + 1 => KeysDelivered(chip, emu) /\ emu.steps = 0
    /\ emu'.steps = emu.steps + 1 =>
          /\ KeysDelivered(chip, emu)
          /\ emu.timer_acc < emu.timer_period
          /\ emu.ticks = (emu.timer_was + emu.delta_time) \div emu.timer_period

C32_KeysTimersSteps == [][C32_Step]_vars

\* An iteration has scanned the keys, ticked and stepped.
C32_Witness == emu.scans = 1 /\ emu.ticks > 0 /\ emu.steps > 0 /\ emu.held # {}

----------------------------------------------------------------------------
(* C33: after initialization and any sequence of frequency adjustments     *)
(* (+10 Hz, -10 Hz, reset) the clock frequency lies in 1..1000 Hz, a reset *)
(* yields 600 Hz, and clock_period is the period of the current frequency, *)
(* 10^9 / clock_freq ns truncated.                                         *)

C33_Frequency ==
    /\ emu.clock_freq \in 1..1000
    /\ last.op = "EQUALS" => emu.clock_freq = 600
    /\ emu.clock_period = 1000000000 \div emu.clock_freq
    /\ emu.clock_freq = 600 => emu.clock_period = 1666666

\* Lowering the frequency below the range has left it at the minimum, with
\* a period of one second.
C33_Witness ==
    /\ last.op = "LEFTBRACKET"
    /\ emu.clock_freq = 1
    /\ emu.clock_period = 1000000000

----------------------------------------------------------------------------
(* C34: for every opcode other than 8XY4, 8XY5, 8XY6, 8XY7, 8XYE and DXYN  *)
(* a step leaves VF as it was unless VF is the instruction's own           *)
(* destination (X = F for 6XNN, 7XNN, 8XY0-3, CXNN, FX07, FX65); 7XNN with *)
(* X # F wraps V[X] modulo 256 and never alters VF.                        *)

FlagOps == {"addv", "subl", "subr", "lsh", "rsh", "draw"}

DestinationOps == {"ldn", "addn", "mov", "or", "and", "xor", "rnd", "ldd", "fill"}

C34_Step ==
    (last'.op = "step" /\ last'.i >= 0) =>
        LET i == last'.i
            op == Decode(i)
        IN  /\ (op \notin FlagOps /\ ~(X(i) = 15 /\ op \in DestinationOps)) =>
                  chip'.V[15] = chip.V[15]
            /\ (op = "addn" /\ X(i) # 15) =>
                  /\ chip'.V[X(i)] = (chip.V[X(i)] + NN(i)) % 256
                  /\ chip'.V[15] = chip.V[15]

C34_FlagFrame == [][C34_Step]_vars

\* 7X02 has taken V[X] from 255 to 1 and VF is still 1.
C34_Witness ==
    /\ Stepped(last, "addn")
    /\ X(last.i) # 15
    /\ chip.V[X(last.i)] = 1
    /\ chip.V[15] = 1

----------------------------------------------------------------------------
(* C35: in an iteration of the main loop with elapsed time dt that is not  *)
(* paused, the timer ticks made number floor((timer_acc + dt) /            *)
(* timer_period) and the steps floor((clock_acc + dt) / clock_period), and *)
(* each accumulator ends strictly below its period; while paused no step,  *)
(* tick or key update is made and the accumulators do not grow.            *)

C35_Discharge ==
    /\ emu.at \in {"keys", "timers", "clock"} => ~emu.paused
    /\ (emu.at = "render" /\ ~emu.paused) =>
          /\ emu.ticks = (emu.timer_was + emu.delta_time) \div emu.timer_period
          /\ emu.steps = (emu.clock_was + emu.delta_time) \div emu.clock_period
          /\ emu.timer_acc < emu.timer_period
          /\ emu.clock_acc < emu.clock_period
    /\ (emu.at = "render" /\ emu.paused) =>
          /\ emu.scans = 0 /\ emu.ticks = 0 /\ emu.steps = 0
          /\ emu.timer_acc = emu.timer_was
          /\ emu.clock_acc = emu.clock_was

\* An iteration of 34 ms that found 10 ms in the timer accumulator has made
\* 2 ticks and 20 steps.
C35_Witness ==
    /\ emu.at = "render"
    /\ ~emu.paused
    /\ emu.delta_time = 34000000
    /\ emu.timer_was = 10000000
    /\ emu.ticks = 2
    /\ emu.steps = 20

----------------------------------------------------------------------------
(* C36: on every timer tick that decrements the sound register (sound > 0  *)
(* before the tick), with audio not disabled, the buzzer is driven with a  *)
(* tone for that tick, also on the tick that takes sound from 1 to 0; on a *)
(* tick that finds sound at 0 it is driven with silence.                   *)

C36_Tick ==
    (emu'.ticks = emu.ticks + 1 /\ emu.device /\ ~emu.disabled) =>
        emu'.queued = IF chip.sound > 0 THEN "tone" ELSE "silence"

C36_ToneOnEveryTick == [][C36_Tick]_vars

----------------------------------------------------------------------------
(* C37: when loading a ROM from a file fails (the extension is rejected,   *)
(* or the file cannot be opened or read in full), LoadRom returns false    *)
(* and the machine, the ROM buffer loaded before and the paused flag are   *)
(* as they were, so a failed drop leaves the running program undisturbed.  *)

C37_Step ==
    last'.op = "load_failed" =>
        /\ chip' = chip
        /\ calls' = calls
        /\ emu'.rom = emu.rom
        /\ emu'.paused = emu.paused
        /\ emu'.running = emu.running

C37_FailedLoadKeepsAll == [][C37_Step]_vars

\* A drop has failed on a paused emulator whose program, read from a file,
\* waits for a key.
C37_Witness ==
    /\ last.op = "load_failed"
    /\ emu.at = "events"
    /\ emu.paused
    /\ emu.rom = SoundWaitRom
    /\ Waiting(chip)

----------------------------------------------------------------------------
(* C38: whenever EX9E or EXA1 executes, in any reachable state, the value  *)
(* of V[X] that indexes the 16 key states is within 0..15.                 *)

C38_Step ==
    (Stepped(last', "key") \/ Stepped(last', "nkey")) =>
        chip.V[X(last'.i)] < NUM_KEYS

C38_KeyIndexInside == [][C38_Step]_vars

----------------------------------------------------------------------------
(* C39: in every state reachable after initialize by steps, timer ticks,   *)
(* key updates, loads, warm restarts and full resets, key_reg is either    *)
(* the sentinel 0xFF or a register index in 0..15, and the step operation  *)
(* is frozen exactly when key_reg is in 0..15.                             *)

C39_LatchDomain == chip.key_reg = 255 \/ chip.key_reg \in 0..15

C39_Step ==
    last'.op = "step" =>
        /\ last'.i = -1 <=> chip.key_reg \in 0..15
        /\ last'.i = -1 => chip' = chip

----------------------------------------------------------------------------
(* C40: when an FX0A wait is pending and the driver's key scan of a frame  *)
(* (digits 0 to 15 in ascending order) reports one or more keys as held,   *)
(* the wait is resolved within that scan with the lowest held digit,       *)
(* whether or not that key was held before FX0A executed; later held       *)
(* digits of the same scan do not overwrite the destination register.      *)

C40_Scan ==
    (emu'.scans = emu.scans + 1 /\ Waiting(chip) /\ emu'.held # {}) =>
        LET lowest == CHOOSE d \in emu'.held : \A h \in emu'.held : d <= h
        IN  /\ chip'.key_reg = 255
            /\ chip'.V = [chip.V EXCEPT ![chip.key_reg] = lowest]

C40_LowestHeldResolves == [][C40_Scan]_vars

\* The scan of the second frame found keys 1 and 15 held and resolved the
\* wait of F10A with 1.
C40_Witness ==
    /\ last.op = "scan"
    /\ emu.frames = 2
    /\ emu.held = {1, 15}
    /\ emu.rom = SoundWaitRom
    /\ chip.pc = AddrOf(3)
    /\ chip.key_reg = 255
    /\ chip.V[1] = 1

====
